---- MODULE Spec2Model ----
(***************************************************************************)
(* Capture session of the useRecorder hook (gate variant): the recorder     *)
(* state machine, its timers, the microphone acquisition with timeout, the  *)
(* recorder events and the conversion completion.                           *)
(*                                                                          *)
(* One action is one task of the event loop: a call of the hook's API, a    *)
(* timer callback, a promise settlement with the continuation it resumes,   *)
(* or a recorder event with its handler.  React commits the state updates   *)
(* of a task (render and the streamRef effect) before the next task runs,   *)
(* so the rendered state and the refs are read as of the end of the         *)
(* previous action.  Where a promise continuation is a separate microtask   *)
(* (startRecording resuming after requestMicAccess, the stop event that     *)
(* follows an error event) it is its own action, run before anything else,  *)
(* through the variable cont.                                               *)
(*                                                                          *)
(* Null ids, null numbers: 0.  Null strings: "null".                        *)
(***************************************************************************)
EXTENDS Integers, Sequences, FiniteSets, TLC

\* ------------------------------------------------------------- bounds
\* platform objects created in one run: getUserMedia requests issued plus
\* MediaRecorder objects constructed
MaxCreated == 3
\* length of the short waveforms the normalizer and the encoder are run on
MaxSamples == 3

\* ------------------------------------------------------------- program constants
maxDurationMs == 2000
TARGET_SAMPLE_RATE == 16000
TARGET_DURATION_MS == 2000
TARGET_SAMPLE_COUNT == (TARGET_SAMPLE_RATE * TARGET_DURATION_MS) \div 1000

\* RecorderStatus
RecorderStatus ==
    {"Idle", "Requesting", "Ready", "Recording", "Processing", "Result",
     "DurationRejected", "MicDenied", "Unsupported", "Error"}

\* GateReason: the outcomes analyzePcmForSpeechGate can report
GateReason ==
    {"TooQuiet", "NoSpeech", "Flatline", "BorderlineQuiet", "ClippingSuspected",
     "SpeechOffCenter", "Ok"}

\* the reasons the session is run with: one accepted and one rejected sample
SessionGateReasons == {"Ok", "Flatline"}

\* Date.now() - startedAtRef.current as the periodic tick may read it: the wall
\* clock can step back (negative), stand still, run, hit or pass the deadline.
ClockReadings == {0 - 100, 100, maxDurationMs, maxDurationMs + 100}

\* what a rejected getUserMedia can throw: DOMExceptions, or something else
DenialErrors ==
    {[dom |-> TRUE, name |-> "NotAllowedError"],
     [dom |-> TRUE, name |-> "NotFoundError"],
     [dom |-> TRUE, name |-> "NotReadableError"],
     [dom |-> FALSE, name |-> "TypeError"]}
\* what a failed conversion can throw
ConversionErrors ==
    {[dom |-> TRUE, name |-> "EncodingError"],
     [dom |-> FALSE, name |-> "TypeError"]}
\* how the try block of startRecording can go: it runs through, new MediaRecorder
\* throws, or recorder.start() throws
StartOutcomes == {"ok", "ctorThrows", "startThrows"}
\* what a failed recorder construction or start can throw
StartErrors ==
    {[dom |-> TRUE, name |-> "NotSupportedError"],
     [dom |-> FALSE, name |-> "TypeError"]}
\* names the recorder's error event can carry
RecorderErrorNames == {"RecorderError"}

VARIABLES
    \* useState
    status, stream, audioBlob, audioUrl, errorName, elapsedMs,
    measuredDurationMs, gateResult, outputSampleRate,
    \* useRef
    mediaRecorderRef, chunksRef, timerRef, autoStopRef, startedAtRef,
    audioUrlRef, mountedRef,
    \* platform
    hasGetUserMedia,   \* navigator.mediaDevices.getUserMedia exists
    hasMediaRecorder,  \* typeof MediaRecorder !== 'undefined'
    requests,      \* getUserMedia requests: request r yields stream r
    acquired,      \* streams the platform has handed out
    liveTracks,    \* streams whose tracks are not stopped
    recorders,     \* MediaRecorder objects
    intervals,     \* armed setInterval timers
    timeouts,      \* armed setTimeout timers (auto-stop deadlines)
    urls,          \* object URLs issued and not revoked
    cont,          \* the microtask that must run next
    lastLog,       \* the last line written by log()
    \* convertBlobTo16kMonoWav
    monoData,        \* the samples mixToMono returned
    nativeRate,      \* decodedBuffer.sampleRate
    renderings,      \* how many times startRendering was called
    convStage,       \* how far a conversion has run
    resampled,       \* the mono samples before normalization or encoding
    fixedLengthPcm,  \* the samples after normalizeToFixedSamples
    wavBlob,         \* the blob encodeWavPcm16 returned
    wavSampleRate,   \* the sampleRate encodeWavPcm16 was called with
    durationMs,      \* the durationMs of the WavConversionResult
    \* analyzePcmForSpeechGate
    gatePcm,         \* the pcm argument
    gateSampleRate,  \* the sampleRate argument
    gateConfig,      \* the thresholds imported from gateConfig
    analysis,        \* the GateResult returned
    \* the duration-only hook
    durationDiffMs,       \* useState: |measured - maxDurationMs|
    durationToleranceMs,  \* options.durationToleranceMs
    \* URL.createObjectURL
    issuedWith       \* the object URLs alive right after the latest createObjectURL

observable ==
    <<status, stream, errorName, elapsedMs, audioBlob, audioUrl, gateResult,
      measuredDurationMs, outputSampleRate>>
refs ==
    <<mediaRecorderRef, chunksRef, timerRef, autoStopRef, startedAtRef,
      audioUrlRef, mountedRef>>
platform ==
    <<hasGetUserMedia, hasMediaRecorder, requests, acquired, liveTracks,
      recorders, intervals, timeouts, urls>>
mixdown == <<monoData, nativeRate, renderings>>
conversion ==
    <<mixdown, convStage, resampled, fixedLengthPcm, wavBlob, wavSampleRate,
      durationMs>>
gate == <<gatePcm, gateSampleRate, gateConfig, analysis>>
variant == <<durationDiffMs, durationToleranceMs>>
\* what the session hook never touches
offline == <<conversion, gate, variant>>
vars ==
    <<observable, refs, platform, cont, lastLog, conversion, gate, variant,
      issuedWith>>

\* useState<MediaStream | null>(null): no stream
NoStream == 0

\* a ref that the effect never fills
streamRef_NeverSynced == NoStream

\* streamRef.current: the effect copies the committed stream into the ref
streamRef == stream

NoCont == [kind |-> "none", id |-> 0]

\* the run may still create a platform object
MayCreate == Len(requests) + Len(recorders) < MaxCreated

\* the hook after its first render
SessionInit ==
    /\ status = "Idle"
    /\ stream = 0
    /\ audioBlob = 0
    /\ audioUrl = 0
    /\ errorName = "null"
    /\ elapsedMs = 0
    /\ measuredDurationMs = 0
    /\ gateResult = "null"
    /\ outputSampleRate = 0
    /\ mediaRecorderRef = 0
    /\ chunksRef = <<>>
    /\ timerRef = 0
    /\ autoStopRef = 0
    /\ startedAtRef = FALSE
    /\ audioUrlRef = 0
    /\ mountedRef = TRUE
    /\ hasGetUserMedia \in BOOLEAN
    /\ hasMediaRecorder \in BOOLEAN
    /\ requests = <<>>
    /\ acquired = {}
    /\ liveTracks = {}
    /\ recorders = <<>>
    /\ intervals = {}
    /\ timeouts = {}
    /\ urls = {}
    /\ cont = NoCont
    /\ lastLog = "lifecycle:mounted"
    /\ issuedWith = {}

\* no conversion has run
NoWav == [size |-> 0, bytes |-> <<>>, offset |-> 0]

\* nothing has been decoded
DecodedIdle ==
    /\ monoData = <<>>
    /\ nativeRate = 0
    /\ renderings = 0

ConversionIdle ==
    /\ DecodedIdle
    /\ convStage = "idle"
    /\ resampled = <<>>
    /\ fixedLengthPcm = <<>>
    /\ wavBlob = NoWav
    /\ wavSampleRate = 0
    /\ durationMs = 0

\* debugMetrics.firstSpeechMs and lastSpeechMs when no frame holds speech, and
\* durationDiffMs when no duration was measured: null
NullMs == 0 - 1

\* the gate has not run
NoConfig == [GATE_TARGET_SAMPLE_COUNT |-> 0]
NoAnalysis == [decision |-> "null"]
GateIdle ==
    /\ gatePcm = <<>>
    /\ gateSampleRate = 0
    /\ gateConfig = NoConfig
    /\ analysis = NoAnalysis

\* the gate hook does not have the fields of the duration-only hook
VariantIdle ==
    /\ durationDiffMs = NullMs
    /\ durationToleranceMs = 0

Init ==
    /\ SessionInit
    /\ ConversionIdle
    /\ GateIdle
    /\ VariantIdle

\* ------------------------------------------------------------- helpers
Min(a, b) == IF a < b THEN a ELSE b

\* a catch block that reports error.name without the instanceof test
ErrorNameOf_NameOfAnything(error, fallback) == error.name

\* a catch block that always reports the fallback
ErrorNameOf_AlwaysFallback(error, fallback) == fallback

\* a catch block without the fallback: a non-DOMException leaves no name
ErrorNameOf_NullForUnknown(error, fallback) ==
    IF error.dom THEN error.name ELSE "null"

\* error instanceof DOMException ? error.name : fallback
ErrorNameOf(error, fallback) == IF error.dom THEN error.name ELSE fallback

\* a clearTimer that forgets the ref without cancelling the interval
ClearTimer_NoCancel == intervals

\* clearTimer: the interval named by timerRef is cancelled
ClearTimer == intervals \ {timerRef}
\* a clearAutoStop that forgets the ref without cancelling the timeout
ClearAutoStop_NoCancel == timeouts

\* clearAutoStop: the timeout named by autoStopRef is cancelled
ClearAutoStop == timeouts \ {autoStopRef}
\* a clearAudioUrl that forgets the ref without revoking the URL
ClearAudioUrl_NoRevoke == urls

\* clearAudioUrl: the URL named by audioUrlRef is revoked
ClearAudioUrl == urls \ {audioUrlRef}
\* stopAndReleaseStream(target): every track of target is stopped
StopAndReleaseStream(live, target) == live \ {target}

\* an updater that installs the new stream and leaves the previous one running
InstallStream_KeepPrev(prev, newStream) == liveTracks \cup {newStream}

\* the setStream updater: the previous stream is released, the new one installed
InstallStream(prev, newStream) ==
    StopAndReleaseStream(liveTracks \cup {newStream}, prev) \cup {newStream}

\* a stream that resolved after unmount and is dropped without being stopped
ReleaseAfterUnmount_Leak(newStream) == liveTracks \cup {newStream}

\* the stream that resolved after the owner was unmounted is released
ReleaseAfterUnmount(newStream) ==
    StopAndReleaseStream(liveTracks \cup {newStream}, newStream)

\* a timeout branch that never drains the late stream
ReleaseLate_Leak(lateStream) == liveTracks \cup {lateStream}

\* micPromise.then of the timeout branch: the late stream is released
ReleaseLate(lateStream) ==
    StopAndReleaseStream(liveTracks \cup {lateStream}, lateStream)

\* a guard that forgets the Recording status
StartBlocked_OnlyRequesting == status = "Requesting"

\* a guard that forgets the Requesting status
StartBlocked_OnlyRecording == status = "Recording"

\* the guard at the head of startRecording
StartBlocked == status = "Requesting" \/ status = "Recording"

\* a tick that reports the clock reading unclamped
ClampElapsed_NoClamp(elapsed) == elapsed

\* Math.min(elapsed, maxDurationMs) of the periodic tick
ClampElapsed(elapsed) == Min(elapsed, maxDurationMs)

\* a capability test that forgets MediaRecorder
PlatformUnsupported_GetUserMediaOnly == ~hasGetUserMedia

\* the capability test at the head of requestMicAccess
PlatformUnsupported == ~hasGetUserMedia \/ ~hasMediaRecorder

\* getDeniedTips: how a denial's failure kind is told apart
getDeniedTips(name) ==
    IF name = "NotAllowedError" \/ name = "SecurityError" THEN "PermissionDenied"
    ELSE IF name = "NotFoundError" THEN "NoDevice"
    ELSE "Unknown"

\* the test after Promise.race: the timeout won
TimeoutWon(isTimedOut, newStream) == isTimedOut \/ newStream = 0

\* a guard that finds nothing to stop, ever
StopSkipped_Always == TRUE

\* a guard that forgets the recorder's state
StopSkipped_OnlyMissing == mediaRecorderRef = 0

\* the guard of stopRecorderSafely: nothing to stop
StopSkipped ==
    mediaRecorderRef = 0 \/ recorders[mediaRecorderRef].state = "inactive"

\* event.data of a dataavailable event of recorder i
Chunk(i, size) == [of |-> i, size |-> size]

\* an ondataavailable that keeps empty chunks too
PushChunk_KeepsEmpty(buffer, i, size) == Append(buffer, Chunk(i, size))

\* recorder.ondataavailable of recorder i: a chunk of `size` bytes is pushed
\* onto the buffer if it is not empty
PushChunk(buffer, i, size) ==
    IF size > 0 THEN Append(buffer, Chunk(i, size)) ELSE buffer

NewRecorder(s, st) ==
    [state |-> st, stream |-> s, handlers |-> TRUE, pending |-> "none",
     delivered |-> <<>>,
     conv |-> "none", blob |-> <<>>]

SetReq(r, st) == [requests EXCEPT ![r].st = st]

\* what startRecording logs when requestMicAccess returned null to it
NoStreamLog(caller, log) == IF caller = "start" THEN "startRecording:no_stream" ELSE log

\* ------------------------------------------------------------- requestMicAccess
\* the synchronous head of requestMicAccess, up to the await of the race
RequestMicAccessBegin(caller) ==
    IF PlatformUnsupported
    THEN /\ status' = "Unsupported"
         /\ errorName' = "NotSupportedError"
         /\ requests' = requests
         /\ lastLog' = NoStreamLog(caller, "requestMicAccess:unsupported")
    ELSE /\ MayCreate
         /\ status' = "Requesting"
         /\ errorName' = "null"
         /\ requests' = Append(requests, [st |-> "pending", caller |-> caller])
         /\ lastLog' = "requestMicAccess:start"

\* requestMicAccess called by the hook's user
RequestMicAccess ==
    /\ UNCHANGED <<offline, issuedWith>>
    /\ mountedRef /\ cont = NoCont
    /\ RequestMicAccessBegin("plain")
    /\ UNCHANGED <<stream, elapsedMs, audioBlob, audioUrl, gateResult,
                   measuredDurationMs, outputSampleRate, refs,
                   hasGetUserMedia, hasMediaRecorder, acquired, liveTracks,
                   recorders, intervals, timeouts, urls, cont>>

\* getUserMedia resolves before the timeout: the race yields the stream
MicResolve(r) ==
    /\ UNCHANGED <<offline, issuedWith>>
    /\ cont = NoCont
    /\ r \in 1..Len(requests) /\ requests[r].st = "pending"
    /\ ~TimeoutWon(FALSE, r)
    /\ acquired' = acquired \cup {r}
    /\ IF ~mountedRef
       THEN /\ liveTracks' = ReleaseAfterUnmount(r)
            /\ requests' = SetReq(r, "released")
            /\ lastLog' = NoStreamLog(requests[r].caller,
                                      "requestMicAccess:resolved_after_unmount")
            /\ UNCHANGED <<stream, status, cont>>
       ELSE /\ liveTracks' = InstallStream(stream, r)
            /\ stream' = r
            /\ status' = "Ready"
            /\ requests' = SetReq(r, "installed")
            /\ lastLog' = "requestMicAccess:success"
            /\ cont' = IF requests[r].caller = "start"
                       THEN [kind |-> "start", id |-> r] ELSE NoCont
    /\ UNCHANGED <<errorName, elapsedMs, audioBlob, audioUrl, gateResult,
                   measuredDurationMs, outputSampleRate, refs,
                   hasGetUserMedia, hasMediaRecorder, recorders, intervals,
                   timeouts, urls>>

\* the 30000 ms timer fires while getUserMedia is pending: the race yields null
MicTimeout(r) ==
    /\ UNCHANGED <<offline, issuedWith>>
    /\ cont = NoCont
    /\ r \in 1..Len(requests) /\ requests[r].st = "pending"
    /\ TimeoutWon(TRUE, 0)
    /\ errorName' = "PermissionTimeoutError"
    /\ status' = "Error"
    /\ requests' = SetReq(r, "timedout")
    /\ lastLog' = NoStreamLog(requests[r].caller, "requestMicAccess:timeout")
    /\ UNCHANGED <<stream, elapsedMs, audioBlob, audioUrl, gateResult,
                   measuredDurationMs, outputSampleRate, refs,
                   hasGetUserMedia, hasMediaRecorder, acquired, liveTracks,
                   recorders, intervals, timeouts, urls, cont>>

\* getUserMedia resolves after the timeout won: micPromise.then stops the stream
MicResolveLate(r) ==
    /\ UNCHANGED <<offline, issuedWith>>
    /\ cont = NoCont
    /\ r \in 1..Len(requests) /\ requests[r].st = "timedout"
    /\ acquired' = acquired \cup {r}
    /\ liveTracks' = ReleaseLate(r)
    /\ requests' = SetReq(r, "lateReleased")
    /\ UNCHANGED <<observable, refs, hasGetUserMedia, hasMediaRecorder,
                   recorders, intervals, timeouts, urls, cont, lastLog>>

\* a catch block that asks for the microphone again by itself
MicReject_AutoRetry(r, error) ==
    /\ UNCHANGED <<offline, issuedWith>>
    /\ cont = NoCont
    /\ r \in 1..Len(requests) /\ requests[r].st = "pending"
    /\ requests' = IF mountedRef /\ MayCreate
                   THEN Append(SetReq(r, "rejected"),
                               [st |-> "pending", caller |-> "plain"])
                   ELSE SetReq(r, "rejected")
    /\ IF ~mountedRef
       THEN /\ lastLog' = NoStreamLog(requests[r].caller,
                                      "requestMicAccess:failed_after_unmount")
            /\ UNCHANGED <<errorName, status>>
       ELSE /\ errorName' = ErrorNameOf(error, "UnknownError")
            /\ status' = "MicDenied"
            /\ lastLog' = NoStreamLog(requests[r].caller, "requestMicAccess:error")
    /\ UNCHANGED <<stream, elapsedMs, audioBlob, audioUrl, gateResult,
                   measuredDurationMs, outputSampleRate, refs,
                   hasGetUserMedia, hasMediaRecorder, acquired, liveTracks,
                   recorders, intervals, timeouts, urls, cont>>

\* getUserMedia rejects: the catch block of requestMicAccess
MicReject(r, error) ==
    /\ UNCHANGED <<offline, issuedWith>>
    /\ cont = NoCont
    /\ r \in 1..Len(requests) /\ requests[r].st = "pending"
    /\ requests' = SetReq(r, "rejected")
    /\ IF ~mountedRef
       THEN /\ lastLog' = NoStreamLog(requests[r].caller,
                                      "requestMicAccess:failed_after_unmount")
            /\ UNCHANGED <<errorName, status>>
       ELSE /\ errorName' = ErrorNameOf(error, "UnknownError")
            /\ status' = "MicDenied"
            /\ lastLog' = NoStreamLog(requests[r].caller, "requestMicAccess:error")
    /\ UNCHANGED <<stream, elapsedMs, audioBlob, audioUrl, gateResult,
                   measuredDurationMs, outputSampleRate, refs,
                   hasGetUserMedia, hasMediaRecorder, acquired, liveTracks,
                   recorders, intervals, timeouts, urls, cont>>

\* getUserMedia rejects after the timeout won: the late reject is ignored
MicRejectLate(r) ==
    /\ UNCHANGED <<offline, issuedWith>>
    /\ cont = NoCont
    /\ r \in 1..Len(requests) /\ requests[r].st = "timedout"
    /\ requests' = SetReq(r, "rejected")
    /\ UNCHANGED <<observable, refs, hasGetUserMedia, hasMediaRecorder, acquired,
                   liveTracks, recorders, intervals, timeouts, urls, cont, lastLog>>

\* ------------------------------------------------------------- startRecording
\* the try block of startRecording on activeStream s; outcome says whether the
\* MediaRecorder constructor or recorder.start() throws, error is what it throws
StartBody(s, outcome, error) ==
    LET id == Len(recorders) + 1 IN
    /\ outcome \in {"ok", "startThrows"} => MayCreate
    /\ elapsedMs' = 0
    /\ measuredDurationMs' = 0
    /\ gateResult' = "null"
    /\ outputSampleRate' = 0
    /\ audioBlob' = 0
    /\ urls' = ClearAudioUrl
    /\ audioUrlRef' = 0
    /\ audioUrl' = 0
    /\ chunksRef' = <<>>
    /\ UNCHANGED <<stream, mountedRef, hasGetUserMedia, hasMediaRecorder,
                   requests, acquired, liveTracks>>
    /\ IF outcome = "ok"
       THEN /\ recorders' = Append(recorders, NewRecorder(s, "recording"))
            /\ mediaRecorderRef' = id
            /\ errorName' = "null"
            /\ startedAtRef' = TRUE
            /\ status' = "Recording"
            /\ timerRef' = id
            /\ intervals' = ClearTimer \cup {id}
            /\ autoStopRef' = id
            /\ timeouts' = ClearAutoStop \cup {id}
            /\ lastLog' = "recorder:start"
       ELSE /\ recorders' = IF outcome = "startThrows"
                            THEN Append(recorders, NewRecorder(s, "inactive"))
                            ELSE recorders
            /\ mediaRecorderRef' = IF outcome = "startThrows" THEN id
                                   ELSE mediaRecorderRef
            /\ intervals' = ClearTimer
            /\ timeouts' = ClearAutoStop
            /\ timerRef' = 0
            /\ autoStopRef' = 0
            /\ startedAtRef' = FALSE
            /\ IF ~mountedRef
               THEN /\ errorName' = "null"
                    /\ status' = status
                    /\ lastLog' = "startRecording:error_after_unmount"
               ELSE /\ errorName' = ErrorNameOf(error, "UnknownError")
                    /\ status' = "Error"
                    /\ lastLog' = "startRecording:error"

\* startRecording once it holds a stream: the MediaRecorder check, then the try block
StartWithStream(s, outcome, error) ==
    IF ~hasMediaRecorder
    THEN /\ status' = "Unsupported"
         /\ errorName' = "NotSupportedError"
         /\ lastLog' = "startRecording:mediarecorder_undefined"
         /\ UNCHANGED <<stream, elapsedMs, audioBlob, audioUrl, gateResult,
                        measuredDurationMs, outputSampleRate, refs, platform>>
    ELSE StartBody(s, outcome, error)

\* startRecording called by the hook's user
StartRecording(outcome, error) ==
    /\ UNCHANGED <<offline, issuedWith>>
    /\ mountedRef /\ cont = NoCont
    /\ IF StartBlocked
       THEN /\ lastLog' = "startRecording:blocked"
            /\ UNCHANGED <<observable, refs, platform, cont>>
       ELSE IF streamRef = 0
       THEN /\ RequestMicAccessBegin("start")
            /\ UNCHANGED <<stream, elapsedMs, audioBlob, audioUrl, gateResult,
                           measuredDurationMs, outputSampleRate, refs,
                           hasGetUserMedia, hasMediaRecorder, acquired,
                           liveTracks, recorders, intervals, timeouts, urls, cont>>
       ELSE /\ StartWithStream(streamRef, outcome, error)
            /\ UNCHANGED cont

\* startRecording resumes after its await of requestMicAccess returned a stream
StartRecordingResume(outcome, error) ==
    /\ UNCHANGED <<offline, issuedWith>>
    /\ cont.kind = "start"
    /\ StartWithStream(cont.id, outcome, error)
    /\ cont' = NoCont

\* ------------------------------------------------------------- retry
\* a retry that leaves the last gate result in place
Retry_KeepsGate ==
    /\ UNCHANGED <<offline, issuedWith>>
    /\ mountedRef /\ cont = NoCont
    /\ gateResult' = gateResult
    /\ IF streamRef = 0
       THEN RequestMicAccessBegin("plain")
       ELSE /\ errorName' = "null"
            /\ status' = "Ready"
            /\ lastLog' = "retry:to_ready"
            /\ UNCHANGED requests
    /\ UNCHANGED <<stream, elapsedMs, audioBlob, audioUrl, measuredDurationMs,
                   outputSampleRate, refs, hasGetUserMedia, hasMediaRecorder,
                   acquired, liveTracks, recorders, intervals, timeouts, urls, cont>>

Retry ==
    /\ UNCHANGED <<offline, issuedWith>>
    /\ mountedRef /\ cont = NoCont
    /\ gateResult' = "null"
    /\ IF streamRef = 0
       THEN RequestMicAccessBegin("plain")
       ELSE /\ errorName' = "null"
            /\ status' = "Ready"
            /\ lastLog' = "retry:to_ready"
            /\ UNCHANGED requests
    /\ UNCHANGED <<stream, elapsedMs, audioBlob, audioUrl, measuredDurationMs,
                   outputSampleRate, refs, hasGetUserMedia, hasMediaRecorder,
                   acquired, liveTracks, recorders, intervals, timeouts, urls, cont>>

\* ------------------------------------------------------------- timers
\* the setInterval callback reads the clock
Tick(t, elapsed) ==
    /\ UNCHANGED <<offline, issuedWith>>
    /\ cont = NoCont
    /\ t \in intervals
    /\ elapsedMs' = IF ~startedAtRef THEN elapsedMs ELSE ClampElapsed(elapsed)
    /\ UNCHANGED <<status, stream, errorName, audioBlob, audioUrl, gateResult,
                   measuredDurationMs, outputSampleRate, refs, platform, cont,
                   lastLog>>

\* the setTimeout callback: the auto-stop deadline, with stopRecorderSafely
AutoStop(t) ==
    /\ UNCHANGED <<offline, issuedWith>>
    /\ cont = NoCont
    /\ t \in timeouts
    /\ timeouts' = timeouts \ {t}
    /\ elapsedMs' = maxDurationMs
    /\ IF StopSkipped
       THEN /\ recorders' = recorders
            /\ lastLog' = "stopRecorderSafely:skipped"
       ELSE /\ recorders' = [recorders EXCEPT ![mediaRecorderRef].state = "inactive",
                                              ![mediaRecorderRef].pending = "stop"]
            /\ lastLog' = "stopRecorderSafely:stop_call"
    /\ UNCHANGED <<status, stream, errorName, audioBlob, audioUrl, gateResult,
                   measuredDurationMs, outputSampleRate, refs, hasGetUserMedia,
                   hasMediaRecorder, requests, acquired, liveTracks, intervals,
                   urls, cont>>

\* ------------------------------------------------------------- recorder events
\* the task the recorder queues when it stops: a dataavailable event carrying
\* `size` bytes, then the stop event
RecorderStop(i, size) ==
    /\ UNCHANGED <<offline, issuedWith>>
    /\ cont = NoCont \/ cont = [kind |-> "stop", id |-> i]
    /\ i \in 1..Len(recorders) /\ recorders[i].pending = "stop"
    /\ cont' = NoCont
    /\ LET chunks == IF recorders[i].handlers
                     THEN PushChunk(chunksRef, i, size) ELSE chunksRef
       IN
       IF ~recorders[i].handlers
       THEN /\ recorders' = [recorders EXCEPT ![i].pending = "none",
                                              ![i].delivered = Append(@, Chunk(i, size))]
            /\ UNCHANGED <<observable, refs, intervals, timeouts, lastLog>>
       ELSE /\ intervals' = ClearTimer
            /\ timerRef' = 0
            /\ startedAtRef' = FALSE
            /\ timeouts' = ClearAutoStop
            /\ autoStopRef' = 0
            /\ IF ~mountedRef
               THEN /\ chunksRef' = chunks
                    /\ recorders' = [recorders EXCEPT ![i].pending = "none",
                                                      ![i].delivered = Append(@, Chunk(i, size))]
                    /\ lastLog' = "recorder:onstop_after_unmount"
                    /\ UNCHANGED status
               ELSE /\ status' = "Processing"
                    /\ chunksRef' = <<>>
                    /\ recorders' = [recorders EXCEPT ![i].pending = "none",
                                                      ![i].delivered = Append(@, Chunk(i, size)),
                                                      ![i].conv = "pending",
                                                      ![i].blob = chunks]
                    /\ lastLog' = "recorder:blob_created"
            /\ UNCHANGED <<stream, errorName, elapsedMs, audioBlob, audioUrl,
                           gateResult, measuredDurationMs, outputSampleRate,
                           mediaRecorderRef, audioUrlRef, mountedRef>>
    /\ UNCHANGED <<hasGetUserMedia, hasMediaRecorder, requests, acquired,
                   liveTracks, urls>>

\* the recording ends by itself (every track of its stream has ended): the
\* recorder goes inactive and queues the task of its dataavailable and stop events
RecorderEnds(i) ==
    /\ UNCHANGED <<offline, issuedWith>>
    /\ cont = NoCont
    /\ i \in 1..Len(recorders) /\ recorders[i].state = "recording"
    /\ recorders' = [recorders EXCEPT ![i].state = "inactive", ![i].pending = "stop"]
    /\ UNCHANGED <<observable, refs, hasGetUserMedia, hasMediaRecorder, requests,
                   acquired, liveTracks, intervals, timeouts, urls, cont, lastLog>>

\* the recording engine fails: the recorder goes inactive and fires its error
\* event; its dataavailable and stop events follow in the same task
RecorderError(i, name) ==
    /\ UNCHANGED <<offline, issuedWith>>
    /\ cont = NoCont
    /\ i \in 1..Len(recorders) /\ recorders[i].state = "recording"
    /\ recorders' = [recorders EXCEPT ![i].state = "inactive", ![i].pending = "stop"]
    /\ cont' = [kind |-> "stop", id |-> i]
    /\ IF ~recorders[i].handlers
       THEN UNCHANGED <<errorName, status, intervals, timeouts, timerRef,
                        autoStopRef, startedAtRef, lastLog>>
       ELSE IF ~mountedRef
       THEN /\ lastLog' = "recorder:onerror_after_unmount"
            /\ UNCHANGED <<errorName, status, intervals, timeouts, timerRef,
                           autoStopRef, startedAtRef>>
       ELSE /\ errorName' = name
            /\ status' = "Error"
            /\ intervals' = ClearTimer
            /\ timerRef' = 0
            /\ startedAtRef' = FALSE
            /\ timeouts' = ClearAutoStop
            /\ autoStopRef' = 0
            /\ lastLog' = "recorder:onerror"
    /\ UNCHANGED <<stream, elapsedMs, audioBlob, audioUrl, gateResult,
                   measuredDurationMs, outputSampleRate, mediaRecorderRef,
                   chunksRef, audioUrlRef, mountedRef, hasGetUserMedia,
                   hasMediaRecorder, requests, acquired, liveTracks, urls>>

\* ------------------------------------------------------------- conversion
\* convertBlobTo16kMonoWav resolves; the gate reports `reason` on its samples
ConvertResolve(i, reason) ==
    /\ UNCHANGED offline
    /\ issuedWith' = IF mountedRef THEN urls \cup {i} ELSE issuedWith
    /\ cont = NoCont
    /\ i \in 1..Len(recorders) /\ recorders[i].conv = "pending"
    /\ recorders' = [recorders EXCEPT ![i].conv = "done"]
    /\ IF ~mountedRef
       THEN /\ lastLog' = "recorder:conversion_after_unmount"
            /\ UNCHANGED <<audioBlob, outputSampleRate, urls, audioUrlRef,
                           audioUrl, measuredDurationMs, gateResult, status>>
       ELSE /\ audioBlob' = i
            /\ outputSampleRate' = TARGET_SAMPLE_RATE
            /\ urls' = ClearAudioUrl \cup {i}
            /\ audioUrlRef' = i
            /\ audioUrl' = i
            /\ measuredDurationMs' = TARGET_DURATION_MS
            /\ gateResult' = reason
            /\ status' = "Result"
            /\ lastLog' = "recorder:result_ok"
    /\ UNCHANGED <<stream, errorName, elapsedMs, mediaRecorderRef, chunksRef,
                   timerRef, autoStopRef, startedAtRef, mountedRef,
                   hasGetUserMedia, hasMediaRecorder, requests, acquired,
                   liveTracks, intervals, timeouts, cont>>

\* convertBlobTo16kMonoWav throws
ConvertReject(i, error) ==
    /\ UNCHANGED <<offline, issuedWith>>
    /\ cont = NoCont
    /\ i \in 1..Len(recorders) /\ recorders[i].conv = "pending"
    /\ recorders' = [recorders EXCEPT ![i].conv = "done"]
    /\ IF ~mountedRef
       THEN /\ lastLog' = "recorder:conversion_error_after_unmount"
            /\ UNCHANGED <<errorName, status>>
       ELSE /\ errorName' = ErrorNameOf(error, "ConversionError")
            /\ status' = "Error"
            /\ lastLog' = "recorder:conversion_error"
    /\ UNCHANGED <<stream, elapsedMs, audioBlob, audioUrl, gateResult,
                   measuredDurationMs, outputSampleRate, refs, hasGetUserMedia,
                   hasMediaRecorder, requests, acquired, liveTracks, intervals,
                   timeouts, urls, cont>>

\* ------------------------------------------------------------- teardown
\* the cleanup of the mount effect
Unmount ==
    /\ UNCHANGED <<offline, issuedWith>>
    /\ mountedRef /\ cont = NoCont
    /\ mountedRef' = FALSE
    /\ intervals' = ClearTimer
    /\ timerRef' = 0
    /\ startedAtRef' = FALSE
    /\ timeouts' = ClearAutoStop
    /\ autoStopRef' = 0
    /\ urls' = ClearAudioUrl
    /\ audioUrlRef' = 0
    /\ recorders' = IF mediaRecorderRef # 0 /\ recorders[mediaRecorderRef].state # "inactive"
                    THEN [recorders EXCEPT ![mediaRecorderRef].handlers = FALSE,
                                           ![mediaRecorderRef].state = "inactive",
                                           ![mediaRecorderRef].pending = "stop"]
                    ELSE recorders
    /\ liveTracks' = StopAndReleaseStream(liveTracks, streamRef)
    /\ lastLog' = "cleanup:done"
    /\ UNCHANGED <<observable, mediaRecorderRef, chunksRef, hasGetUserMedia,
                   hasMediaRecorder, requests, acquired, cont>>

\* ------------------------------------------------------------- audioUtils
\* A Float32Array is a sequence of samples; a sample is held as a multiple of
\* 1/SampleUnit, so SampleUnit is the sample 1.0 and 2 * SampleUnit is out of
\* range.
SampleUnit == 4
\* samples below, inside and above [-1, 1]
SampleValues == {0 - 6, 0 - 2, 4}
\* sample rates encodeWavPcm16 is run with
SampleRates == {8000, TARGET_SAMPLE_RATE, 44100}

\* sequences of samples of length at most n
RECURSIVE SamplesUpTo(_)
SamplesUpTo(n) ==
    IF n = 0 THEN {<<>>}
    ELSE LET shorter == SamplesUpTo(n - 1)
         IN shorter \cup {Append(w, v) : w \in {x \in shorter : Len(x) = n - 1},
                                         v \in SampleValues}

\* pairs of samples from -2.0 to 2.0 in steps of 1/SampleUnit
SamplePairs ==
    {<<a, b>> : a, b \in (0 - 2 * SampleUnit)..(2 * SampleUnit)}

\* a recording of n samples
LongWave(n) == [i \in 1..n |-> ((i % 5) - 2) * 3]

\* a recording of n samples of silence
Silence(n) == [i \in 1..n |-> 0]

\* what decoding, mixing and resampling can hand to normalizeToFixedSamples:
\* an empty waveform, short ones, and waveforms just under, at and just over
\* the target length
ResampledInputs ==
    {LongWave(n) : n \in {0, 1, MaxSamples, TARGET_SAMPLE_COUNT - 1,
                          TARGET_SAMPLE_COUNT, TARGET_SAMPLE_COUNT + 1}}
        \cup {Silence(n) : n \in {MaxSamples, TARGET_SAMPLE_COUNT}}

Max(a, b) == IF a > b THEN a ELSE b

\* Math.round of the quotient a / b of two non-negative integers
RoundDiv(a, b) == (2 * a + b) \div (2 * b)

\* a normalizer that truncates but never pads
normalizeToFixedSamples_NoPad(input, targetLength) ==
    SubSeq(input, 1, Min(Len(input), targetLength))

\* normalizeToFixedSamples: a zeroed array of targetLength samples, the first
\* targetLength samples of the input copied to its head
normalizeToFixedSamples(input, targetLength) ==
    IF Len(input) = targetLength
    THEN input
    ELSE [i \in 1..targetLength |-> IF i <= Len(input) THEN input[i] ELSE 0]

\* writeString: one byte per character code
writeString(codes) == codes
\* writeUint16: DataView.setUint16(offset, value, true)
writeUint16(value) == <<value % 256, (value \div 256) % 256>>

\* a writeUint32 that stores the most significant byte first
writeUint32_BigEndian(value) ==
    <<(value \div 16777216) % 256, (value \div 65536) % 256,
      (value \div 256) % 256, value % 256>>

\* writeUint32: DataView.setUint32(offset, value, true)
writeUint32(value) ==
    <<value % 256, (value \div 256) % 256, (value \div 65536) % 256,
      (value \div 16777216) % 256>>

\* the character codes of 'RIFF', 'WAVE', 'fmt ' and 'data'
RIFF == <<82, 73, 70, 70>>
WAVE == <<87, 65, 86, 69>>
FMT == <<102, 109, 116, 32>>
DATA == <<100, 97, 116, 97>>

\* the thirteen header writes of encodeWavPcm16, in order
WavHeader(sampleRate, channelCount, byteRate, blockAlign, dataSize) ==
    writeString(RIFF) \o writeUint32(36 + dataSize) \o writeString(WAVE)
        \o writeString(FMT) \o writeUint32(16) \o writeUint16(1)
        \o writeUint16(channelCount) \o writeUint32(sampleRate)
        \o writeUint32(byteRate) \o writeUint16(blockAlign) \o writeUint16(16)
        \o writeString(DATA) \o writeUint32(dataSize)

\* a sample loop that scales without clamping first
PcmWord_NoClamp(sample) ==
    LET scaled == IF sample < 0 THEN sample * 32768 ELSE sample * 32767
        pcm == IF scaled < 0 THEN 0 - ((0 - scaled) \div SampleUnit)
               ELSE scaled \div SampleUnit
    IN pcm % 65536

\* the 16-bit word setInt16 stores for one sample: the sample is clamped to
\* [-1, 1], scaled by 0x8000 or 0x7fff, truncated towards zero, taken mod 2^16
PcmWord(sample) ==
    LET clamped == Max(0 - SampleUnit, Min(SampleUnit, sample))
        scaled == IF clamped < 0 THEN clamped * 32768 ELSE clamped * 32767
        pcm == IF scaled < 0 THEN 0 - ((0 - scaled) \div SampleUnit)
               ELSE scaled \div SampleUnit
    IN pcm % 65536

\* the sample loop of encodeWavPcm16: two bytes per sample, low byte first
WavData(samples) ==
    [k \in 1..(2 * Len(samples)) |->
        IF k % 2 = 1 THEN PcmWord(samples[(k + 1) \div 2]) % 256
        ELSE PcmWord(samples[k \div 2]) \div 256]

\* an encoder that allocates one byte per sample
encodeWavPcm16_ShortBuffer(samples, sampleRate) ==
    LET dataSize == Len(samples)
        written == WavHeader(sampleRate, 1, sampleRate * 2, 2, dataSize)
                       \o WavData(samples)
    IN [size |-> 44 + dataSize, bytes |-> written, offset |-> Len(written)]

\* encodeWavPcm16: size is the length of the ArrayBuffer, bytes what was
\* written into it from offset 0 on, offset the write offset at the end
encodeWavPcm16(samples, sampleRate) ==
    LET channelCount == 1
        bytesPerSample == 2
        byteRate == sampleRate * channelCount * bytesPerSample
        blockAlign == channelCount * bytesPerSample
        dataSize == Len(samples) * bytesPerSample
        written == WavHeader(sampleRate, channelCount, byteRate, blockAlign,
                             dataSize) \o WavData(samples)
    IN [size |-> 44 + dataSize, bytes |-> written, offset |-> Len(written)]

\* ------------------------------------------------------------- gate.ts
\* The thresholds gate.ts imports from gateConfig. Amplitudes are in units of
\* 1/SampleUnit, ratios in percent, times in ms, rates in Hz.
\* A window of six samples at 4 Hz in three frames of 500 ms; speech has to
\* start in the first frame and end in the last one
ScaledConfig ==
    [GATE_TARGET_SAMPLE_RATE |-> 4, GATE_TARGET_SAMPLE_COUNT |-> 6,
     FRAME_SIZE |-> 2, CLIP_LEVEL |-> 3, CLIP_RATIO_THRESHOLD |-> 25,
     FLATLINE_ABS_MAX_THRESHOLD |-> 2, FLATLINE_RMS_THRESHOLD |-> 1,
     TOO_QUIET_RMS_THRESHOLD |-> 1, BORDERLINE_QUIET_RMS_THRESHOLD |-> 2,
     SPEECH_FRAME_RMS_THRESHOLD |-> 2, NO_SPEECH_RATIO_THRESHOLD |-> 25,
     PASS_SPEECH_RATIO_THRESHOLD |-> 50, LATE_START_MS |-> 250,
     EARLY_END_MS |-> 1250, MIN_SPEECH_SPAN_MS |-> 1250]

\* two frames of 750 ms, one of them is enough to pass
TwoFrameConfig ==
    [ScaledConfig EXCEPT !.FRAME_SIZE = 3, !.LATE_START_MS = 1000,
                         !.EARLY_END_MS = 500, !.MIN_SPEECH_SPAN_MS = 500]

\* three frames, loose timing, two frames of three do not pass
LooseTimingConfig ==
    [ScaledConfig EXCEPT !.LATE_START_MS = 1000, !.EARLY_END_MS = 500,
                         !.MIN_SPEECH_SPAN_MS = 500,
                         !.PASS_SPEECH_RATIO_THRESHOLD = 67]

\* a frame longer than the window and thresholds of zero
NoFrameConfig ==
    [ScaledConfig EXCEPT !.FRAME_SIZE = 8, !.FLATLINE_ABS_MAX_THRESHOLD = 0,
                         !.FLATLINE_RMS_THRESHOLD = 0,
                         !.NO_SPEECH_RATIO_THRESHOLD = 0,
                         !.MIN_SPEECH_SPAN_MS = 0]

\* one frame of 1000 ms and two samples that fill no frame, loose timing
PartialFrameConfig ==
    [ScaledConfig EXCEPT !.FRAME_SIZE = 4, !.LATE_START_MS = 1000,
                         !.EARLY_END_MS = 500, !.MIN_SPEECH_SPAN_MS = 500]

GateConfigs ==
    {ScaledConfig, TwoFrameConfig, LooseTimingConfig, NoFrameConfig,
     PartialFrameConfig}

\* the window convertBlobTo16kMonoWav produces, in frames of 20 ms, with two
\* pairs of flatline thresholds
WindowConfig ==
    [ScaledConfig EXCEPT !.GATE_TARGET_SAMPLE_RATE = TARGET_SAMPLE_RATE,
                         !.GATE_TARGET_SAMPLE_COUNT = TARGET_SAMPLE_COUNT,
                         !.FRAME_SIZE = 320, !.LATE_START_MS = 700,
                         !.EARLY_END_MS = 1300, !.MIN_SPEECH_SPAN_MS = 300]
WindowConfigs ==
    {[WindowConfig EXCEPT !.FLATLINE_ABS_MAX_THRESHOLD = 1,
                          !.FLATLINE_RMS_THRESHOLD = 1],
     [WindowConfig EXCEPT !.FLATLINE_ABS_MAX_THRESHOLD = 4,
                          !.FLATLINE_RMS_THRESHOLD = 3]}

\* the samples the gate is run on
GateSampleValues == {0, 1, 2, 0 - 4}
\* the sampleRate arguments the gate is run with: negative, zero, twice the
\* target rate, and a rate at which a frame lasts a quarter of a millisecond
GateSampleRates == {0 - 8, 0, 8, 8000}

\* sequences of exactly n gate samples
RECURSIVE GateWindows(_)
GateWindows(n) ==
    IF n = 0 THEN {<<>>}
    ELSE {Append(w, v) : w \in GateWindows(n - 1), v \in GateSampleValues}

\* every window of the scaled length, shorter inputs and longer ones
GateInputs ==
    GateWindows(ScaledConfig.GATE_TARGET_SAMPLE_COUNT)
        \cup GateWindows(0) \cup GateWindows(1) \cup GateWindows(2)
        \cup {[i \in 1..(ScaledConfig.GATE_TARGET_SAMPLE_COUNT + 1) |-> v] :
                  v \in GateSampleValues}

Abs(x) == IF x < 0 THEN 0 - x ELSE x

\* a normalizePcmLength that pads a short input and lets a long one through
normalizePcmLength_NoTruncate(pcm, config) ==
    IF Len(pcm) >= config.GATE_TARGET_SAMPLE_COUNT
    THEN pcm
    ELSE [i \in 1..config.GATE_TARGET_SAMPLE_COUNT |->
              IF i <= Len(pcm) THEN pcm[i] ELSE 0]

\* normalizePcmLength: the input itself if it has the target length, else a
\* zeroed array of the target length with the head of the input copied in
normalizePcmLength(pcm, config) ==
    IF Len(pcm) = config.GATE_TARGET_SAMPLE_COUNT
    THEN pcm
    ELSE [i \in 1..config.GATE_TARGET_SAMPLE_COUNT |->
              IF i <= Len(pcm) THEN pcm[i] ELSE 0]

\* the sum of sample * sample over samples lo to hi
RECURSIVE SumSquares(_, _, _)
SumSquares(s, lo, hi) ==
    IF lo > hi THEN 0
    ELSE IF lo = hi THEN s[lo] * s[lo]
    ELSE LET mid == (lo + hi) \div 2
         IN SumSquares(s, lo, mid) + SumSquares(s, mid + 1, hi)

\* the largest absSample over samples lo to hi, starting from 0
RECURSIVE AbsMax(_, _, _)
AbsMax(s, lo, hi) ==
    IF lo > hi THEN 0
    ELSE IF lo = hi THEN Abs(s[lo])
    ELSE LET mid == (lo + hi) \div 2
         IN Max(AbsMax(s, lo, mid), AbsMax(s, mid + 1, hi))

\* the number of samples lo to hi with absSample > level
RECURSIVE ClippedCount(_, _, _, _)
ClippedCount(s, lo, hi, level) ==
    IF lo > hi THEN 0
    ELSE IF lo = hi THEN (IF Abs(s[lo]) > level THEN 1 ELSE 0)
    ELSE LET mid == (lo + hi) \div 2
         IN ClippedCount(s, lo, mid, level) + ClippedCount(s, mid + 1, hi, level)

\* Math.sqrt(sumSquares / n) < threshold
RmsBelow(sumSquares, n, threshold) ==
    threshold > 0 /\ sumSquares < threshold * threshold * n

\* count / of < percent / 100
RatioBelow(ratio, percent) == ratio.count * 100 < percent * ratio.of

\* a frame loop that wants the frame louder than the threshold
SpeechFrame_Strict(s, frame, config) ==
    LET start == frame * config.FRAME_SIZE
        frameSquares == SumSquares(s, start + 1, start + config.FRAME_SIZE)
    IN frameSquares > config.SPEECH_FRAME_RMS_THRESHOLD
                          * config.SPEECH_FRAME_RMS_THRESHOLD * config.FRAME_SIZE

\* the body of the frame loop: frameRms >= SPEECH_FRAME_RMS_THRESHOLD
SpeechFrame(s, frame, config) ==
    LET start == frame * config.FRAME_SIZE
        frameSquares == SumSquares(s, start + 1, start + config.FRAME_SIZE)
    IN ~RmsBelow(frameSquares, config.FRAME_SIZE,
                 config.SPEECH_FRAME_RMS_THRESHOLD)

\* Math.round(frames * frameMs), frameMs = (FRAME_SIZE / actualSampleRate) * 1000
FramesToMs(frames, config, actualSampleRate) ==
    RoundDiv(frames * config.FRAME_SIZE * 1000, actualSampleRate)

\* a lastSpeechMs without the test for "no speech frame"
lastSpeechMs_NoNull(lastSpeechFrame, config, actualSampleRate) ==
    FramesToMs(lastSpeechFrame + 1, config, actualSampleRate)

firstSpeechMs(firstSpeechFrame, config, actualSampleRate) ==
    IF firstSpeechFrame = 0 - 1 THEN NullMs
    ELSE FramesToMs(firstSpeechFrame, config, actualSampleRate)

lastSpeechMs(lastSpeechFrame, config, actualSampleRate) ==
    IF lastSpeechFrame = 0 - 1 THEN NullMs
    ELSE FramesToMs(lastSpeechFrame + 1, config, actualSampleRate)

\* lines 66 to 116: what the two loops and the lines after them compute
Measure(pcm, sampleRate, config) ==
    LET normalizedPcm == normalizePcmLength(pcm, config)
        actualSampleRate == IF sampleRate > 0 THEN sampleRate
                            ELSE config.GATE_TARGET_SAMPLE_RATE
        n == Len(normalizedPcm)
        frameCount == n \div config.FRAME_SIZE
        speechFrames == {f \in 0..(frameCount - 1) :
                             SpeechFrame(normalizedPcm, f, config)}
        firstSpeechFrame ==
            IF speechFrames = {} THEN 0 - 1
            ELSE CHOOSE f \in speechFrames : \A g \in speechFrames : f <= g
        lastSpeechFrame ==
            IF speechFrames = {} THEN 0 - 1
            ELSE CHOOSE f \in speechFrames : \A g \in speechFrames : f >= g
        first == firstSpeechMs(firstSpeechFrame, config, actualSampleRate)
        last == lastSpeechMs(lastSpeechFrame, config, actualSampleRate)
    IN [rms |-> [sumSquares |-> SumSquares(normalizedPcm, 1, n), length |-> n],
        absMax |-> AbsMax(normalizedPcm, 1, n),
        clipRatio |-> [count |-> ClippedCount(normalizedPcm, 1, n, config.CLIP_LEVEL),
                       of |-> n],
        speechRatio |-> IF frameCount > 0
                        THEN [count |-> Cardinality(speechFrames), of |-> frameCount]
                        ELSE [count |-> 0, of |-> 1],
        firstSpeechMs |-> first,
        lastSpeechMs |-> last,
        speechSpanMs |-> IF first = NullMs \/ last = NullMs THEN 0
                         ELSE Max(0, last - first)]

\* a flatline test that fires on either measure
IsFlatline_Either(m, config) ==
    \/ m.absMax < config.FLATLINE_ABS_MAX_THRESHOLD
    \/ RmsBelow(m.rms.sumSquares, m.rms.length, config.FLATLINE_RMS_THRESHOLD)

\* line 127
IsFlatline(m, config) ==
    /\ m.absMax < config.FLATLINE_ABS_MAX_THRESHOLD
    /\ RmsBelow(m.rms.sumSquares, m.rms.length, config.FLATLINE_RMS_THRESHOLD)

\* line 131
IsTooQuiet(m, config) ==
    RmsBelow(m.rms.sumSquares, m.rms.length, config.TOO_QUIET_RMS_THRESHOLD)

\* line 135
IsNoSpeech(m, config) ==
    RatioBelow(m.speechRatio, config.NO_SPEECH_RATIO_THRESHOLD)

\* line 139
IsBorderlineQuiet(m, config) ==
    RmsBelow(m.rms.sumSquares, m.rms.length,
             config.BORDERLINE_QUIET_RMS_THRESHOLD)

\* line 143
IsClippingSuspected(m, config) ==
    m.clipRatio.count * 100 > config.CLIP_RATIO_THRESHOLD * m.clipRatio.of

\* lines 147 to 151
IsSpeechOffCenter(m, config) ==
    \/ m.firstSpeechMs # NullMs /\ m.firstSpeechMs > config.LATE_START_MS
    \/ m.lastSpeechMs # NullMs /\ m.lastSpeechMs < config.EARLY_END_MS
    \/ m.speechSpanMs < config.MIN_SPEECH_SPAN_MS

\* a pass test that wants the speech ratio above the threshold
IsPass_Strict(m, config) ==
    /\ m.speechRatio.count * 100
           > config.PASS_SPEECH_RATIO_THRESHOLD * m.speechRatio.of
    /\ ~IsBorderlineQuiet(m, config)

\* line 155
IsPass(m, config) ==
    /\ ~RatioBelow(m.speechRatio, config.PASS_SPEECH_RATIO_THRESHOLD)
    /\ ~RmsBelow(m.rms.sumSquares, m.rms.length,
                 config.BORDERLINE_QUIET_RMS_THRESHOLD)

\* buildResult without the metrics: decision, reason and which message
Verdict(decision, reason, userMessage) ==
    [decision |-> decision, reason |-> reason, userMessage |-> userMessage]

\* a decision tree that looks at the timing before the loudness
Decide_TimingFirst(m, config) ==
    IF IsFlatline(m, config) THEN Verdict("REJECT", "Flatline", "no signal")
    ELSE IF IsSpeechOffCenter(m, config)
    THEN Verdict("AMBIG", "SpeechOffCenter", "off center")
    ELSE IF IsTooQuiet(m, config) THEN Verdict("REJECT", "TooQuiet", "too quiet")
    ELSE IF IsNoSpeech(m, config) THEN Verdict("REJECT", "NoSpeech", "no speech")
    ELSE IF IsBorderlineQuiet(m, config)
    THEN Verdict("AMBIG", "BorderlineQuiet", "almost good")
    ELSE IF IsClippingSuspected(m, config)
    THEN Verdict("AMBIG", "ClippingSuspected", "clipped")
    ELSE IF IsPass(m, config) THEN Verdict("PASS", "Ok", "perfect")
    ELSE Verdict("AMBIG", "SpeechOffCenter", "a bit clearer")

\* lines 127 to 159: the first test that holds decides
Decide(m, config) ==
    IF IsFlatline(m, config) THEN Verdict("REJECT", "Flatline", "no signal")
    ELSE IF IsTooQuiet(m, config) THEN Verdict("REJECT", "TooQuiet", "too quiet")
    ELSE IF IsNoSpeech(m, config) THEN Verdict("REJECT", "NoSpeech", "no speech")
    ELSE IF IsBorderlineQuiet(m, config)
    THEN Verdict("AMBIG", "BorderlineQuiet", "almost good")
    ELSE IF IsClippingSuspected(m, config)
    THEN Verdict("AMBIG", "ClippingSuspected", "clipped")
    ELSE IF IsSpeechOffCenter(m, config)
    THEN Verdict("AMBIG", "SpeechOffCenter", "off center")
    ELSE IF IsPass(m, config) THEN Verdict("PASS", "Ok", "perfect")
    ELSE Verdict("AMBIG", "SpeechOffCenter", "a bit clearer")

\* analyzePcmForSpeechGate with the thresholds it is built with
analyzePcmForSpeechGate(pcm, sampleRate, config) ==
    LET m == Measure(pcm, sampleRate, config)
        verdict == Decide(m, config)
    IN [decision |-> verdict.decision,
        reason |-> verdict.reason,
        userMessage |-> verdict.userMessage,
        debugMetrics |-> [rms |-> m.rms, absMax |-> m.absMax,
                          clipRatio |-> m.clipRatio,
                          speechRatio |-> m.speechRatio,
                          firstSpeechMs |-> m.firstSpeechMs,
                          lastSpeechMs |-> m.lastSpeechMs]]

\* the gate is about to be called on a sample sequence
GateInit ==
    /\ SessionInit
    /\ hasGetUserMedia /\ hasMediaRecorder
    /\ ConversionIdle
    /\ VariantIdle
    /\ gatePcm \in GateInputs
    /\ gateSampleRate \in GateSampleRates
    /\ gateConfig \in GateConfigs
    /\ analysis = NoAnalysis

\* one call of analyzePcmForSpeechGate
Analyze ==
    /\ analysis = NoAnalysis
    /\ analysis' = analyzePcmForSpeechGate(gatePcm, gateSampleRate, gateConfig)
    /\ UNCHANGED <<gatePcm, gateSampleRate, gateConfig>>
    /\ UNCHANGED <<observable, refs, platform, cont, lastLog, conversion,
                   variant, issuedWith>>

GateSpec == GateInit /\ [][Analyze]_vars

\* a conversion starts with the decoded, mixed and resampled samples; the
\* encoder alone is also run on every short sequence of samples
ConversionInit ==
    /\ SessionInit
    /\ hasGetUserMedia /\ hasMediaRecorder
    /\ DecodedIdle
    /\ \/ convStage = "resampled" /\ resampled \in ResampledInputs
       \/ /\ convStage = "samples"
          /\ resampled \in SamplesUpTo(MaxSamples) \cup SamplePairs
    /\ fixedLengthPcm = <<>>
    /\ wavBlob = NoWav
    /\ wavSampleRate = 0
    /\ durationMs = 0
    /\ GateIdle
    /\ VariantIdle

\* convertBlobTo16kMonoWav, line 128
Normalize ==
    /\ convStage = "resampled"
    /\ convStage' = "normalized"
    /\ fixedLengthPcm' = normalizeToFixedSamples(resampled, TARGET_SAMPLE_COUNT)
    /\ UNCHANGED <<mixdown, resampled, wavBlob, wavSampleRate, durationMs>>
    /\ UNCHANGED <<observable, refs, platform, cont, lastLog, gate, variant,
                   issuedWith>>

\* convertBlobTo16kMonoWav, lines 129 to 136
EncodeNormalized ==
    /\ convStage = "normalized"
    /\ convStage' = "converted"
    /\ wavBlob' = encodeWavPcm16(fixedLengthPcm, TARGET_SAMPLE_RATE)
    /\ wavSampleRate' = TARGET_SAMPLE_RATE
    /\ durationMs' = RoundDiv(Len(fixedLengthPcm) * 1000, TARGET_SAMPLE_RATE)
    /\ UNCHANGED <<mixdown, resampled, fixedLengthPcm>>
    /\ UNCHANGED <<observable, refs, platform, cont, lastLog, gate, variant,
                   issuedWith>>

\* encodeWavPcm16 applied to samples of any length at any rate
EncodeWav(sampleRate) ==
    /\ convStage = "samples"
    /\ convStage' = "encoded"
    /\ wavBlob' = encodeWavPcm16(resampled, sampleRate)
    /\ wavSampleRate' = sampleRate
    /\ UNCHANGED <<mixdown, resampled, fixedLengthPcm, durationMs>>
    /\ UNCHANGED <<observable, refs, platform, cont, lastLog, gate, variant,
                   issuedWith>>

\* recorder.onstop, part_000 line 292: the gate, built with the thresholds
\* `config`, is run on converted.pcm at converted.sampleRate
GateConverted(config) ==
    /\ convStage = "converted"
    /\ analysis = NoAnalysis
    /\ gatePcm' = fixedLengthPcm
    /\ gateSampleRate' = wavSampleRate
    /\ gateConfig' = config
    /\ analysis' = analyzePcmForSpeechGate(fixedLengthPcm, wavSampleRate, config)
    /\ UNCHANGED conversion
    /\ UNCHANGED <<observable, refs, platform, cont, lastLog, variant,
                   issuedWith>>

\* no samples at all, two samples of silence, and a pair that is not silent
QuietInputs == {<<>>, <<0, 0>>, <<0, 1>>}

\* analyzePcmForSpeechGate applied to a short sample sequence at the target rate
GateSamples(config) ==
    /\ convStage = "samples"
    /\ resampled \in QuietInputs
    /\ convStage' = "analysed"
    /\ gatePcm' = resampled
    /\ gateSampleRate' = TARGET_SAMPLE_RATE
    /\ gateConfig' = config
    /\ analysis' = analyzePcmForSpeechGate(resampled, TARGET_SAMPLE_RATE, config)
    /\ UNCHANGED <<mixdown, resampled, fixedLengthPcm, wavBlob, wavSampleRate,
                   durationMs>>
    /\ UNCHANGED <<observable, refs, platform, cont, lastLog, variant,
                   issuedWith>>

ConversionNext ==
    \/ Normalize
    \/ EncodeNormalized
    \/ \E config \in WindowConfigs : GateConverted(config)
    \/ \E config \in WindowConfigs : GateSamples(config)
    \/ \E rate \in SampleRates : EncodeWav(rate)

ConversionSpec == ConversionInit /\ [][ConversionNext]_vars

\* ------------------------------------------------------------- resampleTo16k
\* the rates decodeAudioData hands over: below, at and above the target rate
NativeRates == {8000, TARGET_SAMPLE_RATE, 44100, 48000}

\* the mono waveforms the resampler is run on: every short one, and one second
\* more than the short ones can show: 16000 samples
MonoInputs == SamplesUpTo(MaxSamples) \cup {LongWave(TARGET_SAMPLE_RATE)}

\* a target length that is the rounded quotient alone
targetLength_NoFloor(inputLength, sampleRate) ==
    RoundDiv(inputLength * TARGET_SAMPLE_RATE, sampleRate)

\* line 46: Math.max(1, Math.round((input.length * TARGET_SAMPLE_RATE) / sampleRate))
targetLength(inputLength, sampleRate) ==
    Max(1, RoundDiv(inputLength * TARGET_SAMPLE_RATE, sampleRate))

\* what startRendering can resolve with for a context of `length` frames: the
\* platform chooses the samples, the context fixes their count
Renderings(length) == {Silence(length), LongWave(length)}

\* createBuffer(1, 0, sampleRate): a platform refuses a buffer of no frames
\* with NotSupportedError, or lets it pass
CreateBufferOutcomes(inputLength) ==
    IF inputLength = 0 THEN {"throws", "ok"} ELSE {"ok"}

\* the resampler is about to be called on the mixed-down samples
ResampleInit ==
    /\ SessionInit
    /\ hasGetUserMedia /\ hasMediaRecorder
    /\ monoData \in MonoInputs
    /\ nativeRate \in NativeRates
    /\ renderings = 0
    /\ convStage = "mixed"
    /\ resampled = <<>>
    /\ fixedLengthPcm = <<>>
    /\ wavBlob = NoWav
    /\ wavSampleRate = 0
    /\ durationMs = 0
    /\ GateIdle
    /\ VariantIdle

\* one call of resampleTo16k(monoData, nativeRate)
Resample(outcome, rendered) ==
    /\ convStage = "mixed"
    /\ IF nativeRate = TARGET_SAMPLE_RATE
       THEN /\ convStage' = "resampled"
            /\ resampled' = monoData
            /\ renderings' = renderings
       ELSE /\ outcome \in CreateBufferOutcomes(Len(monoData))
            /\ IF outcome = "throws"
               THEN /\ convStage' = "rejected"
                    /\ resampled' = resampled
                    /\ renderings' = renderings
               ELSE /\ rendered \in Renderings(targetLength(Len(monoData), nativeRate))
                    /\ convStage' = "resampled"
                    /\ resampled' = rendered
                    /\ renderings' = renderings + 1
    /\ UNCHANGED <<monoData, nativeRate, fixedLengthPcm, wavBlob, wavSampleRate,
                   durationMs>>
    /\ UNCHANGED <<observable, refs, platform, cont, lastLog, gate, variant,
                   issuedWith>>

ResampleNext ==
    \E outcome \in {"throws", "ok"} :
        \E rendered \in Renderings(targetLength(Len(monoData), nativeRate)) :
            Resample(outcome, rendered)

ResampleSpec == ResampleInit /\ [][ResampleNext]_vars

\* the samples the encoder was given
EncodedSamples == IF convStage = "converted" THEN fixedLengthPcm ELSE resampled

\* ------------------------------------------------------------- duration-only hook
\* The hook of part_002 has no conversion and no gate: its stop handler
\* measures the duration of the recorded blob and compares it with
\* maxDurationMs. Its timers, stopRecorderSafely and cleanup are those above.
\* decoded.duration is held in units of 1/DurationUnit ms
DurationUnit == 10
\* decodeAudioData throws
DecodeFails == 0 - 1
\* decoded durations from 1700 ms to 2300 ms, and some between two milliseconds
DecodedDurations ==
    {ms * DurationUnit : ms \in {1700 + 10 * k : k \in 0..60}}
        \cup {17794, 17795, 22204, 22205}
\* the tolerances the hook is run with: none, and the default
Tolerances == {0, 220}

\* Blob.size of a Blob built from the chunk sequence
BlobSize(chunks) == IF chunks = <<>> THEN 0 ELSE chunks[1].size

\* measureDurationMs: null for an empty blob, without AudioContext or when
\* decoding throws, else Math.round(decoded.duration * 1000)
measureDurationMs(size, hasAudioContext, decoded) ==
    IF size = 0 \/ ~hasAudioContext THEN NullMs
    ELSE IF decoded = DecodeFails THEN NullMs
    ELSE RoundDiv(decoded, DurationUnit)

\* a test that rejects a difference equal to the tolerance
ToleranceExceeded_AtTolerance(diff, tolerance) == diff >= tolerance

\* part_002 line 309: diff > durationToleranceMs
ToleranceExceeded(diff, tolerance) == diff > tolerance

\* the duration-only hook while its first recording runs
DurationInit ==
    /\ status = "Recording"
    /\ stream = 1
    /\ audioBlob = 0
    /\ audioUrl = 0
    /\ errorName = "null"
    /\ elapsedMs = 0
    /\ measuredDurationMs = NullMs
    /\ gateResult = "null"
    /\ outputSampleRate = 0
    /\ mediaRecorderRef = 1
    /\ chunksRef = <<>>
    /\ timerRef = 1
    /\ autoStopRef = 1
    /\ startedAtRef = TRUE
    /\ audioUrlRef = 0
    /\ mountedRef = TRUE
    /\ hasGetUserMedia = TRUE
    /\ hasMediaRecorder = TRUE
    /\ requests = <<[st |-> "installed", caller |-> "start"]>>
    /\ acquired = {1}
    /\ liveTracks = {1}
    /\ recorders = <<NewRecorder(1, "recording")>>
    /\ intervals = {1}
    /\ timeouts = {1}
    /\ urls = {}
    /\ cont = NoCont
    /\ lastLog = "recorder:start"
    /\ issuedWith = {}
    /\ ConversionIdle
    /\ GateIdle
    /\ durationDiffMs = NullMs
    /\ durationToleranceMs \in Tolerances

\* part_002, recorder.ondataavailable and recorder.onstop up to its await
DurationRecorderStop(i, size) ==
    /\ UNCHANGED offline
    /\ cont = NoCont
    /\ i \in 1..Len(recorders) /\ recorders[i].pending = "stop"
    /\ LET chunks == IF recorders[i].handlers
                     THEN PushChunk(chunksRef, i, size) ELSE chunksRef
       IN
       IF ~recorders[i].handlers
       THEN /\ recorders' = [recorders EXCEPT ![i].pending = "none",
                                              ![i].delivered = Append(@, Chunk(i, size))]
            /\ UNCHANGED <<observable, refs, intervals, timeouts, urls,
                           issuedWith, lastLog>>
       ELSE /\ intervals' = ClearTimer
            /\ timerRef' = 0
            /\ startedAtRef' = FALSE
            /\ timeouts' = ClearAutoStop
            /\ autoStopRef' = 0
            /\ chunksRef' = chunks
            /\ IF ~mountedRef
               THEN /\ recorders' = [recorders EXCEPT ![i].pending = "none",
                                                      ![i].delivered = Append(@, Chunk(i, size))]
                    /\ lastLog' = "recorder:onstop_after_unmount"
                    /\ UNCHANGED <<status, audioBlob, audioUrl, audioUrlRef,
                                   urls, issuedWith>>
               ELSE /\ status' = "Processing"
                    /\ recorders' = [recorders EXCEPT ![i].pending = "none",
                                                      ![i].delivered = Append(@, Chunk(i, size)),
                                                      ![i].conv = "pending",
                                                      ![i].blob = chunks]
                    /\ audioBlob' = i
                    /\ issuedWith' = urls \cup {i}
                    /\ urls' = ClearAudioUrl \cup {i}
                    /\ audioUrlRef' = i
                    /\ audioUrl' = i
                    /\ lastLog' = "recorder:blob_created"
            /\ UNCHANGED <<stream, errorName, elapsedMs, gateResult,
                           measuredDurationMs, outputSampleRate,
                           mediaRecorderRef, mountedRef>>
    /\ UNCHANGED <<hasGetUserMedia, hasMediaRecorder, requests, acquired,
                   liveTracks, cont>>

\* part_002, recorder.onstop after its await of measureDurationMs
DurationMeasured(i, hasAudioContext, decoded) ==
    /\ UNCHANGED <<conversion, gate, durationToleranceMs, issuedWith>>
    /\ cont = NoCont
    /\ i \in 1..Len(recorders) /\ recorders[i].conv = "pending"
    /\ recorders' = [recorders EXCEPT ![i].conv = "done"]
    /\ LET duration == measureDurationMs(BlobSize(recorders[i].blob),
                                         hasAudioContext, decoded)
           diff == Abs(duration - maxDurationMs)
       IN
       IF ~mountedRef
       THEN /\ lastLog' = "recorder:duration_after_unmount"
            /\ UNCHANGED <<measuredDurationMs, durationDiffMs, status>>
       ELSE /\ measuredDurationMs' = duration
            /\ IF duration # NullMs
               THEN /\ durationDiffMs' = diff
                    /\ IF ToleranceExceeded(diff, durationToleranceMs)
                       THEN /\ status' = "DurationRejected"
                            /\ lastLog' = "recorder:duration_rejected"
                       ELSE /\ status' = "Result"
                            /\ lastLog' = "recorder:result_ok"
               ELSE /\ durationDiffMs' = NullMs
                    /\ status' = "Result"
                    /\ lastLog' = "recorder:result_ok"
    /\ UNCHANGED <<stream, errorName, elapsedMs, audioBlob, audioUrl, gateResult,
                   outputSampleRate, refs, hasGetUserMedia, hasMediaRecorder,
                   requests, acquired, liveTracks, intervals, timeouts, urls,
                   cont>>

DurationNext ==
    \/ \E t \in 1..MaxCreated : AutoStop(t)
    \/ \E i \in 1..MaxCreated : RecorderEnds(i)
    \/ \E i \in 1..MaxCreated, size \in {0, 1} : DurationRecorderStop(i, size)
    \/ \E i \in 1..MaxCreated, ctx \in BOOLEAN,
          decoded \in DecodedDurations \cup {DecodeFails} :
              DurationMeasured(i, ctx, decoded)
    \/ Unmount

DurationSpec == DurationInit /\ [][DurationNext]_vars

\* ------------------------------------------------------------- specification
Next ==
    \/ RequestMicAccess
    \/ \E o \in StartOutcomes, n \in StartErrors : StartRecording(o, n)
    \/ \E o \in StartOutcomes, n \in StartErrors : StartRecordingResume(o, n)
    \/ Retry
    \/ \E r \in 1..MaxCreated : MicResolve(r)
    \/ \E r \in 1..MaxCreated : MicTimeout(r)
    \/ \E r \in 1..MaxCreated : MicResolveLate(r)
    \/ \E r \in 1..MaxCreated, n \in DenialErrors : MicReject(r, n)
    \/ \E r \in 1..MaxCreated : MicRejectLate(r)
    \/ \E t \in 1..MaxCreated, e \in ClockReadings : Tick(t, e)
    \/ \E t \in 1..MaxCreated : AutoStop(t)
    \/ \E i \in 1..MaxCreated, size \in {0, 1} : RecorderStop(i, size)
    \/ \E i \in 1..MaxCreated : RecorderEnds(i)
    \/ \E i \in 1..MaxCreated, n \in RecorderErrorNames : RecorderError(i, n)
    \/ \E i \in 1..MaxCreated, g \in SessionGateReasons : ConvertResolve(i, g)
    \/ \E i \in 1..MaxCreated, n \in ConversionErrors : ConvertReject(i, n)
    \/ Unmount

Spec == Init /\ [][Next]_vars

\* some conversion started by a stop event has not completed
Normalizing == \E i \in 1..Len(recorders) : recorders[i].conv = "pending"

\* ------------------------------------------------------------- C1
\* C1: a startRecording call made while status is Requesting or Recording
\* changes nothing: no request, no recorder, no timer, no buffer, no field.
C1_DoubleStartNoOp ==
    [][ ( /\ status \in {"Requesting", "Recording"}
          /\ \E o \in StartOutcomes, n \in StartErrors : StartRecording(o, n) )
        => UNCHANGED <<observable, refs, platform, cont>> ]_vars

\* a start was blocked while a recording was running with both timers armed
C1_Witness ==
    /\ lastLog = "startRecording:blocked"
    /\ status = "Recording"
    /\ mediaRecorderRef # 0 /\ recorders[mediaRecorderRef].state = "recording"
    /\ intervals # {} /\ timeouts # {}

\* ------------------------------------------------------------- C2
\* C2: while the normalization started by a stop event has not completed, no
\* startRecording call is accepted: no recorder is created, no field is cleared.
C2_NoStartWhileNormalizing ==
    [][ Normalizing => Len(recorders') = Len(recorders) ]_vars

\* ------------------------------------------------------------- C3
\* The timers fire, the recorder delivers the events it has queued, a resumed
\* startRecording runs and a conversion completes: the scheduling the event
\* loop guarantees.
LiveSpec ==
    /\ Spec
    /\ WF_vars(\E t \in 1..MaxCreated : AutoStop(t))
    /\ WF_vars(\E i \in 1..MaxCreated, size \in {0, 1} : RecorderStop(i, size))
    /\ WF_vars(\E o \in StartOutcomes, n \in StartErrors : StartRecordingResume(o, n))
    /\ WF_vars(\E i \in 1..MaxCreated :
                   \/ \E g \in SessionGateReasons : ConvertResolve(i, g)
                   \/ \E n \in ConversionErrors : ConvertReject(i, n))

Capturing(i) == i <= Len(recorders) /\ recorders[i].state = "recording"

\* C3: in a session that is not torn down, every recording that has started is
\* stopped (by its auto-stop deadline) without a manual stop.
C3_AutoStopLiveness ==
    \A i \in 1..MaxCreated :
        (mountedRef /\ Capturing(i)) ~> (~mountedRef \/ ~Capturing(i))

TimedOutReq(r) == requests[r].st \in {"timedout", "lateReleased"}

\* C5: when the timeout wins, the step leaves status Error with errorName
\* PermissionTimeoutError, installs nothing and resumes no startRecording; the
\* stream of a timed-out request is never live and never the session's stream.
C5_AcquisitionTimeout ==
    /\ [](\A r \in 1..Len(requests) :
             TimedOutReq(r) => stream # r /\ r \notin liveTracks)
    /\ [][ \A r \in 1..Len(requests) :
             (requests[r].st = "pending" /\ requests'[r].st = "timedout")
             => /\ status' = "Error"
                /\ errorName' = "PermissionTimeoutError"
                /\ stream' = stream
                /\ liveTracks' = liveTracks
                /\ cont' = NoCont
                /\ recorders' = recorders ]_vars

\* a request timed out and its stream arrived late
C5_Witness ==
    \E r \in 1..Len(requests) : requests[r].st = "lateReleased" /\ r \in acquired

\* ------------------------------------------------------------- C6
\* C6: at most one acquired stream has live tracks, and it is the installed one.
C6_AtMostOneLiveHandle ==
    /\ Cardinality(liveTracks) <= 1
    /\ liveTracks \subseteq {stream}

\* two acquisitions succeeded and were installed one after the other
C6_Witness ==
    /\ Len(requests) = 2
    /\ requests[1].st = "installed" /\ requests[2].st = "installed"
    /\ liveTracks = {stream}

\* ------------------------------------------------------------- C7
\* C7: a stream that resolves after teardown is stopped and not installed, no
\* startRecording resumes with it and no session field changes.
C7_AcquisitionAfterTeardown ==
    /\ [](\A r \in 1..Len(requests) :
             requests[r].st = "released"
             => r \in acquired /\ r \notin liveTracks /\ stream # r)
    /\ [][ \A r \in 1..Len(requests) :
             (requests[r].st = "pending" /\ requests'[r].st = "released")
             => /\ ~mountedRef
                /\ cont' = NoCont
                /\ recorders' = recorders
                /\ UNCHANGED observable ]_vars

\* a request of startRecording resolved after teardown
C7_Witness ==
    \E r \in 1..Len(requests) :
        requests[r].st = "released" /\ requests[r].caller = "start"

\* ------------------------------------------------------------- C8
\* C8: after teardown no completion changes an observable field or issues a URL.
C8_NoMutationAfterTeardown ==
    [][ ~mountedRef => UNCHANGED observable /\ urls' \subseteq urls ]_vars

\* ------------------------------------------------------------- C9
\* C9 as stated: never exactly one of the two timers armed.
C9_NeverExactlyOneArmed == (intervals = {}) <=> (timeouts = {})

\* the stop handler, the error handler, a failed start or the cleanup ran
TimersCancellingStep ==
    \/ Unmount
    \/ \E i \in 1..Len(recorders), size \in {0, 1} :
           RecorderStop(i, size) /\ recorders[i].handlers
    \/ \E i \in 1..Len(recorders), n \in RecorderErrorNames :
           RecorderError(i, n) /\ recorders[i].handlers /\ mountedRef
    \/ \E o \in {"ctorThrows", "startThrows"}, n \in StartErrors :
           \/ StartRecordingResume(o, n) /\ hasMediaRecorder
           \/ /\ StartRecording(o, n)
              /\ status \notin {"Requesting", "Recording"}
              /\ stream # 0 /\ hasMediaRecorder

\* C9 amended: after the stop handler, the error handler, a failed start and
\* the cleanup neither timer is armed; the auto-stop deadline is never armed
\* without the tick; each armed timer is the one its ref names.
C9_TimersCancelledTogether ==
    /\ [](/\ timeouts # {} => intervals # {}
          /\ intervals \subseteq {timerRef}
          /\ timeouts \subseteq {autoStopRef})
    /\ [][ TimersCancellingStep => intervals' = {} /\ timeouts' = {} ]_vars

\* the error handler ran on a recording whose timers were both armed
C9_Witness ==
    /\ lastLog = "recorder:onerror"
    /\ status = "Error"
    /\ intervals = {} /\ timeouts = {}
    /\ cont.kind = "stop"

C11_ProcessingOutcome ==
    [][ \A i \in 1..Len(recorders) :
          /\ ( /\ mountedRef /\ recorders[i].handlers
               /\ \E size \in {0, 1} : RecorderStop(i, size) )
             => /\ status' = "Processing"
                /\ recorders'[i].conv = "pending"
          /\ \A g \in SessionGateReasons :
               (mountedRef /\ ConvertResolve(i, g))
               => /\ status' = "Result"
                  /\ gateResult' = g
                  /\ audioBlob' = i /\ audioUrl' = i /\ i \in urls'
                  /\ measuredDurationMs' = TARGET_DURATION_MS
                  /\ outputSampleRate' = TARGET_SAMPLE_RATE
                  /\ errorName' = errorName
          /\ \A e \in ConversionErrors :
               (mountedRef /\ ConvertReject(i, e))
               => /\ status' = "Error"
                  /\ errorName' = (IF e.dom THEN e.name ELSE "ConversionError")
                  /\ UNCHANGED <<gateResult, audioBlob, audioUrl, audioUrlRef,
                                 urls, measuredDurationMs, outputSampleRate>> ]_vars

\* a conversion threw something that is no DOMException, nothing was published
C11_Witness ==
    /\ lastLog = "recorder:conversion_error"
    /\ status = "Error" /\ errorName = "ConversionError"
    /\ gateResult = "null" /\ audioBlob = 0 /\ audioUrl = 0 /\ urls = {}

\* ------------------------------------------------------------- C12
\* C12: retry clears the gate result; with a stream held it clears the error
\* name, moves to Ready and issues no request; with none held it runs
\* requestMicAccess once (one request at most), and status follows that
\* request: Ready when it resolves, MicDenied when it rejects, Error when it
\* times out, Unsupported when the platform has no capture capability.
C12_Retry ==
    [][ /\ Retry =>
             /\ gateResult' = "null"
             /\ stream # 0 =>
                  status' = "Ready" /\ errorName' = "null" /\ requests' = requests
             /\ (stream = 0 /\ hasGetUserMedia /\ hasMediaRecorder) =>
                  /\ Len(requests') = Len(requests) + 1
                  /\ requests'[Len(requests')] = [st |-> "pending", caller |-> "plain"]
                  /\ status' = "Requesting" /\ errorName' = "null"
             /\ (stream = 0 /\ ~(hasGetUserMedia /\ hasMediaRecorder)) =>
                  /\ requests' = requests
                  /\ status' = "Unsupported" /\ errorName' = "NotSupportedError"
        /\ \A r \in 1..Len(requests) :
             ( /\ mountedRef
               /\ requests[r].caller = "plain" /\ requests[r].st = "pending" )
             => /\ requests'[r].st = "installed" => status' = "Ready" /\ stream' = r
                /\ requests'[r].st = "rejected" => status' = "MicDenied"
                /\ requests'[r].st = "timedout" => status' = "Error" ]_vars

\* retry went straight to Ready on the held stream after a published result
C12_Witness ==
    /\ lastLog = "retry:to_ready"
    /\ status = "Ready" /\ errorName = "null" /\ gateResult = "null"
    /\ stream # 0 /\ audioBlob # 0
    /\ requests = <<[st |-> "installed", caller |-> "start"]>>

\* ------------------------------------------------------------- C13
\* C13: when a startRecording puts the session into Recording, the chunk buffer
\* is empty, elapsedMs is 0, the results and errorName are null, no playback
\* URL is left unrevoked and the only armed timers are those of the new recorder.
C13_StartClearsPreviousCycle ==
    [][ (status' = "Recording" /\ Len(recorders') = Len(recorders) + 1)
        => /\ chunksRef' = <<>>
           /\ elapsedMs' = 0
           /\ gateResult' = "null"
           /\ measuredDurationMs' = 0 /\ outputSampleRate' = 0
           /\ audioBlob' = 0 /\ audioUrl' = 0 /\ audioUrlRef' = 0
           /\ errorName' = "null"
           /\ urls' = {}
           /\ intervals' = {Len(recorders')}
           /\ timeouts' = {Len(recorders')} ]_vars

\* a second recording started after the first one had published its result
C13_Witness ==
    /\ lastLog = "recorder:start" /\ status = "Recording"
    /\ Len(recorders) = 2
    /\ recorders[1].conv = "done" /\ recorders[1].state = "inactive"
    /\ audioBlob = 0 /\ urls = {} /\ elapsedMs = 0
    /\ intervals = {2} /\ timeouts = {2}

\* ------------------------------------------------------------- C14
\* a failure is handled in a live session: a rejected or timed-out request, a
\* platform without the capability, a constructor or start that throws, the
\* recorder's error event, a conversion that throws
FailureHandled ==
    /\ mountedRef
    /\ \/ \E r \in 1..Len(requests), e \in DenialErrors : MicReject(r, e)
       \/ \E r \in 1..Len(requests) : MicTimeout(r)
       \/ /\ ~hasGetUserMedia \/ ~hasMediaRecorder
          /\ stream = 0
          /\ \/ RequestMicAccess
             \/ Retry
             \/ /\ status \notin {"Requesting", "Recording"}
                /\ \E o \in StartOutcomes, e \in StartErrors : StartRecording(o, e)
       \/ /\ hasMediaRecorder
          /\ \E o \in {"ctorThrows", "startThrows"}, e \in StartErrors :
                \/ StartRecordingResume(o, e)
                \/ /\ status \notin {"Requesting", "Recording"} /\ stream # 0
                   /\ StartRecording(o, e)
       \/ \E i \in 1..Len(recorders), n \in RecorderErrorNames :
              recorders[i].handlers /\ RecorderError(i, n)
       \/ \E i \in 1..Len(recorders), e \in ConversionErrors : ConvertReject(i, e)

\* C14: every failure handled in a live session leaves status Error, MicDenied
\* or Unsupported with a failure kind, and in every state with one of these
\* statuses errorName is not null.
C14_FailuresMapped ==
    /\ [](status \in {"Error", "MicDenied", "Unsupported"} => errorName # "null")
    /\ [][ FailureHandled
           => /\ status' \in {"Error", "MicDenied", "Unsupported"}
              /\ errorName' # "null" ]_vars

\* recorder.start() threw something that is no DOMException
C14_Witness ==
    /\ lastLog = "startRecording:error"
    /\ status = "Error" /\ errorName = "UnknownError"
    /\ mediaRecorderRef # 0 /\ recorders[mediaRecorderRef].state = "inactive"

\* ------------------------------------------------------------- C15
\* C15: a getUserMedia request is issued only by a call of requestMicAccess,
\* retry or startRecording, one per call at most; while status is MicDenied,
\* Unsupported or Error a recorder is created only by a call of startRecording.
C15_NoAutomaticRetry ==
    [][ /\ Len(requests') \in {Len(requests), Len(requests) + 1}
        /\ Len(requests') > Len(requests)
           => \/ RequestMicAccess
              \/ Retry
              \/ \E o \in StartOutcomes, e \in StartErrors : StartRecording(o, e)
        /\ ( /\ status \in {"MicDenied", "Unsupported", "Error"}
             /\ Len(recorders') > Len(recorders) )
           => \E o \in StartOutcomes, e \in StartErrors : StartRecording(o, e) ]_vars

\* a request was rejected and the caller asked again
C15_Witness ==
    /\ Len(requests) = 2
    /\ requests[1].st = "rejected" /\ requests[2].st = "pending"
    /\ status = "Requesting" /\ errorName = "null"

\* ------------------------------------------------------------- C16
\* C16: on a platform without getUserMedia or without MediaRecorder no request
\* is ever issued, no stream installed or released, no recorder created, status
\* is never Requesting, and requestMicAccess (called directly, by retry or by
\* startRecording) leaves status Unsupported with NotSupportedError.
C16_UnsupportedPlatform ==
    /\ []( (~hasGetUserMedia \/ ~hasMediaRecorder)
           => /\ requests = <<>> /\ recorders = <<>>
              /\ stream = 0 /\ acquired = {} /\ liveTracks = {}
              /\ status \in {"Idle", "Unsupported"}
              /\ status = "Unsupported" => errorName = "NotSupportedError" )
    /\ [][ ( /\ ~hasGetUserMedia \/ ~hasMediaRecorder
             /\ \/ RequestMicAccess
                \/ Retry
                \/ \E o \in StartOutcomes, e \in StartErrors : StartRecording(o, e) )
           => /\ status' = "Unsupported"
              /\ errorName' = "NotSupportedError"
              /\ UNCHANGED <<stream, refs, platform, cont>> ]_vars

\* startRecording found getUserMedia but no MediaRecorder
C16_Witness ==
    /\ hasGetUserMedia /\ ~hasMediaRecorder
    /\ lastLog = "startRecording:no_stream"
    /\ status = "Unsupported" /\ errorName = "NotSupportedError"
    /\ recorders = <<>>

C18_FixedOutputLength ==
    convStage \in {"normalized", "converted"}
    => /\ Len(fixedLengthPcm) = 32000
       /\ Len(fixedLengthPcm) = (TARGET_SAMPLE_RATE * TARGET_DURATION_MS) \div 1000
       /\ \A i \in 1..32000 :
            fixedLengthPcm[i] = (IF i <= Len(resampled) THEN resampled[i] ELSE 0)
       /\ convStage = "converted" => durationMs = 2000

\* an input one sample longer than the target was truncated
C18_Witness ==
    /\ convStage = "converted"
    /\ Len(resampled) = 32001
    /\ Len(fixedLengthPcm) = 32000

\* ------------------------------------------------------------- C19
\* the unsigned little-endian fields a reader of the container finds at an offset
U16At(bytes, off) == bytes[off + 1] + 256 * bytes[off + 2]
U32At(bytes, off) ==
    bytes[off + 1] + 256 * bytes[off + 2] + 65536 * bytes[off + 3]
        + 16777216 * bytes[off + 4]

\* C19: the header read back from the encoded bytes at the standard offsets has
\* format tag 1, one channel, the sample rate the encoder was given, byte rate
\* rate * 2, block alignment 2, 16 bits per sample and data size 2 * sampleCount.
C19_HeaderRoundTrip ==
    convStage \in {"encoded", "converted"}
    => /\ U16At(wavBlob.bytes, 20) = 1
       /\ U16At(wavBlob.bytes, 22) = 1
       /\ U32At(wavBlob.bytes, 24) = wavSampleRate
       /\ U32At(wavBlob.bytes, 28) = wavSampleRate * 1 * 2
       /\ U16At(wavBlob.bytes, 32) = 2
       /\ U16At(wavBlob.bytes, 34) = 16
       /\ U32At(wavBlob.bytes, 40) = Len(EncodedSamples) * 2

\* samples were encoded at 44100 Hz
C19_Witness ==
    /\ convStage = "encoded"
    /\ wavSampleRate = 44100
    /\ Len(resampled) = 2

\* ------------------------------------------------------------- C20
\* the signed 16-bit sample a reader finds at index i of the data chunk
S16At(bytes, i) ==
    LET word == U16At(bytes, 44 + 2 * (i - 1))
    IN IF word >= 32768 THEN word - 65536 ELSE word

\* the 16-bit value of a sample: clamped, scaled, truncated towards zero
Pcm16Of(sample) ==
    IF sample <= 0 - SampleUnit THEN 0 - 32768
    ELSE IF sample >= SampleUnit THEN 32767
    ELSE IF sample < 0 THEN 0 - (((0 - sample) * 32768) \div SampleUnit)
    ELSE (sample * 32767) \div SampleUnit

\* C20: for n samples the container is 44 + 2n bytes, every byte of it was
\* written and none beyond, the RIFF size field is 36 + 2n, the data chunk
\* holds the n samples as little-endian 16-bit values, and the normalizer's
\* artifact is 64044 bytes.
C20_SizeArithmetic ==
    convStage \in {"encoded", "converted"}
    => LET n == Len(EncodedSamples) IN
       /\ wavBlob.size = 44 + 2 * n
       /\ Len(wavBlob.bytes) = wavBlob.size
       /\ wavBlob.offset = wavBlob.size
       /\ U32At(wavBlob.bytes, 4) = 36 + 2 * n
       /\ \A i \in 1..n : S16At(wavBlob.bytes, i) = Pcm16Of(EncodedSamples[i])
       /\ convStage = "converted" => wavBlob.size = 64044

\* a recording one sample short of the target was padded and encoded
C20_Witness ==
    /\ convStage = "converted"
    /\ Len(resampled) = 31999
    /\ wavBlob.size = 64044

\* ------------------------------------------------------------- C21
\* C21: the value written for a sample is the sample clamped to [-1, 1] and
\* scaled by 32768 if negative, by 32767 otherwise: -1 and below give -32768,
\* 1 and above give 32767, 0 gives 0, nothing wraps around, the sign is kept,
\* and a larger sample never gives a smaller value.
C21_SampleQuantization ==
    convStage = "encoded"
    => LET n == Len(resampled)
           written(i) == S16At(wavBlob.bytes, i)
       IN /\ \A i \in 1..n :
               /\ resampled[i] <= 0 - SampleUnit => written(i) = 0 - 32768
               /\ resampled[i] >= SampleUnit => written(i) = 32767
               /\ resampled[i] = 0 => written(i) = 0
               /\ resampled[i] < 0 => written(i) < 0
               /\ resampled[i] > 0 => written(i) > 0
               /\ (resampled[i] < 0 /\ resampled[i] > 0 - SampleUnit)
                  => written(i) = 0 - ((0 - resampled[i]) * 32768) \div SampleUnit
               /\ (resampled[i] > 0 /\ resampled[i] < SampleUnit)
                  => written(i) = (resampled[i] * 32767) \div SampleUnit
          /\ \A i, j \in 1..n :
               resampled[i] <= resampled[j] => written(i) <= written(j)

\* a sample of -2.0 and a sample of 1.5 were encoded
C21_Witness ==
    /\ convStage = "encoded"
    /\ resampled = <<0 - 2 * SampleUnit, SampleUnit + 2>>
    /\ S16At(wavBlob.bytes, 1) = 0 - 32768
    /\ S16At(wavBlob.bytes, 2) = 32767

\* ------------------------------------------------------------- C26
\* C26: whenever a playback URL is issued the one issued before it has been
\* revoked, so at most one issued and not yet revoked playback URL exists, both
\* right after createObjectURL and at the end of every handler
C26_RevokedBeforeIssue ==
    /\ Cardinality(issuedWith) <= 1
    /\ Cardinality(urls) <= 1

\* what the handlers do keep: at the end of every handler at most one issued and
\* not yet revoked playback URL exists and it is the one audioUrlRef holds; an
\* accepted start and teardown leave none, and a handler that issues a URL
\* leaves only that one
UrlsAfterHandler ==
    [][ /\ Cardinality(urls') <= 1
        /\ urls' \subseteq {audioUrlRef'} \ {0}
        /\ urls' # urls => \/ urls' = {}
                           \/ \E i \in 1..Len(recorders) :
                                  /\ recorders[i].conv = "pending"
                                  /\ recorders'[i].conv = "done"
                                  /\ urls' = {i}
        /\ Len(recorders') > Len(recorders) => urls' = {}
        /\ (mountedRef /\ ~mountedRef') => urls' = {}
        /\ ~mountedRef => urls = {} ]_vars

\* ------------------------------------------------------------- C29
\* C29: the buffer the stop handler hands to the normaliser holds exactly the
\* non-empty chunks its recorder delivered, in order, and no chunk of another
\* recording; the chunk sequence is empty after that and after every start
C29_RawCaptureBuffer ==
    [][ /\ \A i \in 1..Len(recorders) :
              (recorders[i].conv = "none" /\ recorders'[i].conv = "pending")
              => /\ recorders'[i].blob
                      = SelectSeq(recorders'[i].delivered, LAMBDA c : c.size > 0)
                 /\ \A k \in 1..Len(recorders'[i].blob) :
                        recorders'[i].blob[k].of = i
                 /\ chunksRef' = <<>>
        /\ Len(recorders') > Len(recorders) => chunksRef' = <<>> ]_vars

\* a second recording handed over its own chunk after the first one had
\* handed over its own
C29_Witness ==
    /\ Len(recorders) >= 2
    /\ recorders[1].conv # "none" /\ recorders[1].blob = <<Chunk(1, 1)>>
    /\ recorders[2].conv # "none" /\ recorders[2].blob = <<Chunk(2, 1)>>

\* ------------------------------------------------------------- C30
\* C30: when the auto-stop deadline fires and there is no recorder or the
\* recorder is inactive, stopRecorderSafely logs that it skipped, no recorder
\* changes (no stop signal, no further stop event, no further conversion) and
\* nothing of the session changes but the elapsed time its caller sets
C30_InactiveStopNoOp ==
    [][ ( /\ \/ mediaRecorderRef = 0
             \/ recorders[mediaRecorderRef].state = "inactive"
          /\ \E t \in timeouts : AutoStop(t) )
        => /\ lastLog' = "stopRecorderSafely:skipped"
           /\ recorders' = recorders
           /\ UNCHANGED <<status, stream, audioBlob, audioUrl, errorName,
                          measuredDurationMs, gateResult, outputSampleRate,
                          refs, urls, liveTracks, requests, intervals>> ]_vars

\* the deadline fired after the recorder had stopped by itself, before its
\* stop event was handled
C30_Witness ==
    /\ lastLog = "stopRecorderSafely:skipped"
    /\ mediaRecorderRef # 0
    /\ recorders[mediaRecorderRef].state = "inactive"
    /\ recorders[mediaRecorderRef].pending = "stop"
    /\ status = "Recording"

\* ------------------------------------------------------------- C22
\* the metrics the gate reported, and the thresholds it was built with
Reported == analysis.debugMetrics
ReportedRmsBelow(threshold) ==
    RmsBelow(Reported.rms.sumSquares, Reported.rms.length, threshold)
ReportedSpanMs ==
    IF Reported.firstSpeechMs = NullMs \/ Reported.lastSpeechMs = NullMs
    THEN 0
    ELSE Max(0, Reported.lastSpeechMs - Reported.firstSpeechMs)

\* the seven conditions of the decision tree on the reported metrics, in order
ReportedConditions ==
    << Reported.absMax < gateConfig.FLATLINE_ABS_MAX_THRESHOLD
           /\ ReportedRmsBelow(gateConfig.FLATLINE_RMS_THRESHOLD),
       ReportedRmsBelow(gateConfig.TOO_QUIET_RMS_THRESHOLD),
       RatioBelow(Reported.speechRatio, gateConfig.NO_SPEECH_RATIO_THRESHOLD),
       ReportedRmsBelow(gateConfig.BORDERLINE_QUIET_RMS_THRESHOLD),
       Reported.clipRatio.count * 100
           > gateConfig.CLIP_RATIO_THRESHOLD * Reported.clipRatio.of,
       \/ Reported.firstSpeechMs # NullMs
              /\ Reported.firstSpeechMs > gateConfig.LATE_START_MS
       \/ Reported.lastSpeechMs # NullMs
              /\ Reported.lastSpeechMs < gateConfig.EARLY_END_MS
       \/ ReportedSpanMs < gateConfig.MIN_SPEECH_SPAN_MS,
       /\ ~RatioBelow(Reported.speechRatio,
                      gateConfig.PASS_SPEECH_RATIO_THRESHOLD)
       /\ ~ReportedRmsBelow(gateConfig.BORDERLINE_QUIET_RMS_THRESHOLD) >>

\* the outcome of each condition, and of the fallback
Outcomes ==
    << <<"REJECT", "Flatline">>, <<"REJECT", "TooQuiet">>,
       <<"REJECT", "NoSpeech">>, <<"AMBIG", "BorderlineQuiet">>,
       <<"AMBIG", "ClippingSuspected">>, <<"AMBIG", "SpeechOffCenter">>,
       <<"PASS", "Ok">>, <<"AMBIG", "SpeechOffCenter">> >>

\* C22: the gate reports the outcome of the first condition that holds in the
\* order Flatline, TooQuiet, NoSpeech, BorderlineQuiet, ClippingSuspected,
\* SpeechOffCenter, Pass, and the fallback if none holds; the fallback has its
\* own message
C22_GatePriority ==
    analysis # NoAnalysis
    => LET holding == {k \in 1..7 : ReportedConditions[k]} \cup {8}
           first == CHOOSE k \in holding : \A j \in holding : k <= j
       IN /\ <<analysis.decision, analysis.reason>> = Outcomes[first]
          /\ analysis.userMessage = "a bit clearer" <=> first = 8

\* a sample below the too-quiet threshold, not flatline, whose timing is off
\* center, was reported TooQuiet
C22_Witness ==
    /\ analysis # NoAnalysis
    /\ ~ReportedConditions[1]
    /\ ReportedConditions[2]
    /\ ReportedConditions[6]
    /\ analysis.reason = "TooQuiet"
    /\ analysis.decision = "REJECT"

\* ------------------------------------------------------------- C23
\* C23: the gate reports Flatline exactly when the reported peak is below the
\* flatline peak threshold and the reported RMS is below the flatline RMS
\* threshold; a window with a sample at or above the peak threshold is never
\* reported Flatline
C23_FlatlineCondition ==
    analysis # NoAnalysis
    => LET window == normalizePcmLength(gatePcm, gateConfig)
       IN /\ analysis.reason = "Flatline"
                <=> /\ Reported.absMax < gateConfig.FLATLINE_ABS_MAX_THRESHOLD
                    /\ ReportedRmsBelow(gateConfig.FLATLINE_RMS_THRESHOLD)
          /\ (\E i \in 1..Len(window) :
                  Abs(window[i]) >= gateConfig.FLATLINE_ABS_MAX_THRESHOLD)
                => analysis.reason # "Flatline"
          /\ Reported.absMax < gateConfig.FLATLINE_ABS_MAX_THRESHOLD
                <=> \A i \in 1..Len(window) :
                        Abs(window[i]) < gateConfig.FLATLINE_ABS_MAX_THRESHOLD

\* a window with one sample at the peak threshold and an RMS below the
\* flatline RMS threshold was not reported Flatline
C23_Witness ==
    /\ analysis # NoAnalysis
    /\ gateConfig.FLATLINE_RMS_THRESHOLD > 0
    /\ Reported.absMax >= gateConfig.FLATLINE_ABS_MAX_THRESHOLD
    /\ ReportedRmsBelow(gateConfig.FLATLINE_RMS_THRESHOLD)
    /\ analysis.reason = "TooQuiet"

\* ------------------------------------------------------------- C25
\* C25: the gate reports PASS/Ok exactly when the sample is not flatline, its
\* RMS is at least the too-quiet and the borderline thresholds, its speech
\* ratio at least the no-speech and the pass thresholds, its clip ratio at
\* most the ceiling, and its speech starts early enough, ends late enough and
\* spans the minimum; PASS and Ok go together
C25_PassCondition ==
    analysis # NoAnalysis
    => /\ analysis.decision = "PASS" <=> analysis.reason = "Ok"
       /\ analysis.reason = "Ok"
            <=> /\ ~( /\ Reported.absMax < gateConfig.FLATLINE_ABS_MAX_THRESHOLD
                      /\ ReportedRmsBelow(gateConfig.FLATLINE_RMS_THRESHOLD) )
                /\ ~ReportedRmsBelow(gateConfig.TOO_QUIET_RMS_THRESHOLD)
                /\ Reported.speechRatio.count * 100
                       >= gateConfig.NO_SPEECH_RATIO_THRESHOLD
                              * Reported.speechRatio.of
                /\ ~ReportedRmsBelow(gateConfig.BORDERLINE_QUIET_RMS_THRESHOLD)
                /\ Reported.clipRatio.count * 100
                       <= gateConfig.CLIP_RATIO_THRESHOLD * Reported.clipRatio.of
                /\ Reported.firstSpeechMs # NullMs
                       => Reported.firstSpeechMs <= gateConfig.LATE_START_MS
                /\ Reported.lastSpeechMs # NullMs
                       => Reported.lastSpeechMs >= gateConfig.EARLY_END_MS
                /\ ReportedSpanMs >= gateConfig.MIN_SPEECH_SPAN_MS
                /\ Reported.speechRatio.count * 100
                       >= gateConfig.PASS_SPEECH_RATIO_THRESHOLD
                              * Reported.speechRatio.of
       /\ analysis.reason = "Ok"
            => Reported.rms.sumSquares
                   >= gateConfig.BORDERLINE_QUIET_RMS_THRESHOLD
                          * gateConfig.BORDERLINE_QUIET_RMS_THRESHOLD
                          * Reported.rms.length

\* a sample whose speech ratio is exactly the pass threshold passed
C25_Witness ==
    /\ analysis # NoAnalysis
    /\ analysis.decision = "PASS"
    /\ analysis.reason = "Ok"
    /\ Reported.speechRatio.count * 100
           = gateConfig.PASS_SPEECH_RATIO_THRESHOLD * Reported.speechRatio.of
    /\ Reported.firstSpeechMs = 0

\* ------------------------------------------------------------- C24
\* C24: a recording of silence is normalized to TARGET_SAMPLE_COUNT zeros and,
\* with positive flatline thresholds, the gate rejects it as Flatline and
\* reports rms, absMax, clipRatio and speechRatio of 0 and no first or last
\* speech time
C24_SilenceScenario ==
    /\ ( /\ convStage \in {"normalized", "converted"}
         /\ \A i \in 1..Len(resampled) : resampled[i] = 0 )
       => fixedLengthPcm = Silence(TARGET_SAMPLE_COUNT)
    /\ ( /\ analysis # NoAnalysis
         /\ \A i \in 1..Len(gatePcm) : gatePcm[i] = 0
         /\ gateConfig.FLATLINE_ABS_MAX_THRESHOLD > 0
         /\ gateConfig.FLATLINE_RMS_THRESHOLD > 0 )
       => /\ analysis.decision = "REJECT"
          /\ analysis.reason = "Flatline"
          /\ Reported.rms.sumSquares = 0
          /\ Reported.rms.length = gateConfig.GATE_TARGET_SAMPLE_COUNT
          /\ Reported.absMax = 0
          /\ Reported.clipRatio.count = 0
          /\ Reported.speechRatio.count = 0
          /\ Reported.firstSpeechMs = NullMs
          /\ Reported.lastSpeechMs = NullMs

\* a recording of 32000 zeros went through the normalizer and the gate
C24_Witness ==
    /\ convStage = "converted"
    /\ resampled = Silence(TARGET_SAMPLE_COUNT)
    /\ fixedLengthPcm = Silence(TARGET_SAMPLE_COUNT)
    /\ gatePcm = fixedLengthPcm
    /\ analysis # NoAnalysis
    /\ analysis.reason = "Flatline"
    /\ Reported.speechRatio.of = 100

\* ------------------------------------------------------------- C27
\* C27: when the duration-only stop handler completes in a mounted session it
\* leaves status DurationRejected exactly if a duration was measured and
\* |measured - maxDurationMs| > durationToleranceMs, and Result otherwise;
\* durationDiffMs is |measured - maxDurationMs| (null if nothing was measured);
\* a measured duration of maxDurationMs with tolerance 220 gives Result
C27_DurationOnly ==
    [][ \A i \in 1..Len(recorders) :
          ( /\ mountedRef
            /\ recorders[i].conv = "pending"
            /\ recorders'[i].conv = "done" )
          => /\ status' \in {"DurationRejected", "Result"}
             /\ status' = "DurationRejected"
                  <=> /\ measuredDurationMs' # NullMs
                      /\ \/ measuredDurationMs' - maxDurationMs
                                > durationToleranceMs
                         \/ maxDurationMs - measuredDurationMs'
                                > durationToleranceMs
             /\ measuredDurationMs' = NullMs => durationDiffMs' = NullMs
             /\ measuredDurationMs' # NullMs
                  => /\ durationDiffMs' >= 0
                     /\ durationDiffMs' \in
                            {measuredDurationMs' - maxDurationMs,
                             maxDurationMs - measuredDurationMs'}
             /\ (measuredDurationMs' = maxDurationMs
                    /\ durationToleranceMs = 220)
                  => status' = "Result" /\ durationDiffMs' = 0 ]_vars

\* a recording measured at exactly maxDurationMs ended in Result with
\* tolerance 220
C27_Witness ==
    /\ status = "Result"
    /\ recorders[1].conv = "done"
    /\ measuredDurationMs = maxDurationMs
    /\ durationDiffMs = 0
    /\ durationToleranceMs = 220

\* ------------------------------------------------------------- C31
\* nothing is left to run after the cleanup: no acquisition is in flight, no
\* recorder owes an event or captures from tracks that have ended, and no
\* normalization is in flight
TornDownAndSettled ==
    /\ ~mountedRef
    /\ cont = NoCont
    /\ \A r \in 1..Len(requests) : requests[r].st \notin {"pending", "timedout"}
    /\ \A i \in 1..Len(recorders) :
           /\ recorders[i].pending = "none" /\ recorders[i].conv # "pending"
           /\ Capturing(i) => recorders[i].stream \in liveTracks

\* C31: once the cleanup and the completions pending at it have run there is
\* no stream with live tracks, no armed tick or auto-stop timer, no recorder
\* capturing and no unrevoked playback URL; the cleanup itself stops the
\* current recorder with its handlers detached, and no stop event delivered
\* after the cleanup starts a normalization.
C31_TeardownReleases ==
    /\ [](TornDownAndSettled
             => /\ liveTracks = {}
                /\ intervals = {} /\ timeouts = {}
                /\ \A i \in 1..Len(recorders) : ~Capturing(i)
                /\ urls = {})
    /\ [][ Unmount
             => /\ intervals' = {} /\ timeouts' = {} /\ urls' = {}
                /\ stream # 0 => stream \notin liveTracks'
                /\ mediaRecorderRef # 0
                     => /\ recorders'[mediaRecorderRef].state = "inactive"
                        /\ Capturing(mediaRecorderRef)
                             => ~recorders'[mediaRecorderRef].handlers ]_vars
    /\ [][ ~mountedRef
             => \A i \in 1..Len(recorders) :
                    recorders[i].conv = "none" => recorders'[i].conv = "none" ]_vars

\* the cleanup ran during a recording and the stop event of the recorder it
\* stopped has been delivered
C31_Witness ==
    /\ TornDownAndSettled
    /\ mediaRecorderRef # 0
    /\ ~recorders[mediaRecorderRef].handlers
    /\ recorders[mediaRecorderRef].conv = "none"
    /\ stream # 0

\* ------------------------------------------------------------- C32
\* a startRecording call that passes the guard at its head
StartAccepted ==
    /\ ~StartBlocked
    /\ \E o \in StartOutcomes, n \in StartErrors : StartRecording(o, n)

\* the acquisition awaited by a startRecording call fails in this step
StartAcquisitionFails(r) ==
    /\ r \in 1..Len(requests)
    /\ requests[r].caller = "start"
    /\ requests[r].st = "pending"
    /\ requests'[r].st \in {"rejected", "timedout"}

\* C32: a handle once installed stays held; an accepted startRecording that
\* finds a handle issues no acquisition request and the recorder it creates
\* records on that handle; startRecording issues a request only when no handle
\* is held; when the acquisition it awaits fails it creates no recorder, arms
\* no timer and leaves the failure state of requestMicAccess.
C32_HandleReuse ==
    /\ [][ stream # 0 => stream' # 0 ]_vars
    /\ [][ (StartAccepted /\ stream # 0)
             => /\ requests' = requests
                /\ stream' = stream
                /\ Len(recorders') > Len(recorders)
                     => recorders'[Len(recorders')].stream = stream ]_vars
    /\ [][ ( /\ \E o \in StartOutcomes, n \in StartErrors : StartRecording(o, n)
             /\ requests' # requests )
             => /\ stream = 0
                /\ requests' = Append(requests, [st |-> "pending", caller |-> "start"]) ]_vars
    /\ [][ (StartAccepted /\ stream = 0)
             => /\ recorders' = recorders
                /\ intervals' = intervals /\ timeouts' = timeouts
                /\ requests' = requests => status' = "Unsupported" ]_vars
    /\ [][ \A r \in 1..Len(requests) :
             StartAcquisitionFails(r)
             => /\ recorders' = recorders
                /\ intervals' = intervals /\ timeouts' = timeouts
                /\ cont' = NoCont
                /\ mountedRef
                     => status' = IF requests'[r].st = "rejected"
                                  THEN "MicDenied" ELSE "Error" ]_vars

\* a second recording was started on the handle the first one acquired
C32_Witness ==
    /\ Len(requests) = 1 /\ requests[1].caller = "start"
    /\ Len(recorders) = 2
    /\ recorders[1].stream = 1 /\ recorders[2].stream = 1
    /\ stream = 1 /\ status = "Recording"

\* ------------------------------------------------------------- C33
\* the window the gate analysed, its whole frames, and the energy of frame f
\* (the sum of its squared samples) next to the energy of a frame whose RMS
\* is the speech-frame threshold
AnalysedWindow == normalizePcmLength(gatePcm, gateConfig)
WholeFrames == Len(AnalysedWindow) \div gateConfig.FRAME_SIZE
RECURSIVE FrameEnergy(_, _)
FrameEnergy(f, k) ==
    IF k = 0 THEN 0
    ELSE LET sample == AnalysedWindow[f * gateConfig.FRAME_SIZE + k]
         IN sample * sample + FrameEnergy(f, k - 1)
ThresholdEnergy ==
    gateConfig.SPEECH_FRAME_RMS_THRESHOLD * gateConfig.SPEECH_FRAME_RMS_THRESHOLD
        * gateConfig.FRAME_SIZE
FramesAbove ==
    {f \in 0..(WholeFrames - 1) :
         FrameEnergy(f, gateConfig.FRAME_SIZE) > ThresholdEnergy}
FramesAtLeast ==
    {f \in 0..(WholeFrames - 1) :
         FrameEnergy(f, gateConfig.FRAME_SIZE) >= ThresholdEnergy}

\* the reported speech ratio is speech over floor(length / frameSize) frames
ReportsSpeechFrames(speech) ==
    IF WholeFrames = 0
    THEN Reported.speechRatio.count = 0
    ELSE /\ Reported.speechRatio.of = WholeFrames
         /\ Reported.speechRatio.count = Cardinality(speech)

\* C33 as stated: the speech frames are the whole frames whose RMS strictly
\* exceeds the threshold.
C33_StrictlyAboveThreshold ==
    analysis # NoAnalysis => ReportsSpeechFrames(FramesAbove)

\* C33 amended: the speech frames are the floor(length / frameSize) whole
\* frames whose RMS is at least the speech-frame threshold; a frame whose RMS
\* equals the threshold is counted as speech, a trailing partial frame is not
\* looked at.
C33_AtLeastThreshold ==
    analysis # NoAnalysis
    => /\ ReportsSpeechFrames(FramesAtLeast)
       /\ Reported.firstSpeechMs = NullMs <=> FramesAtLeast = {}

\* the only whole frame has the RMS of the threshold and was counted as
\* speech; two louder samples after it fill no frame
C33_Witness ==
    /\ analysis # NoAnalysis
    /\ gateConfig = PartialFrameConfig
    /\ gatePcm = <<2, 2, 2, 2, 0 - 4, 0 - 4>>
    /\ FrameEnergy(0, gateConfig.FRAME_SIZE) = ThresholdEnergy
    /\ Reported.speechRatio = [count |-> 1, of |-> 1]

\* ------------------------------------------------------------- C34
\* Math.round of inputLength * 16000 / nativeRate, by its definition: the
\* integer n with n - 1/2 <= quotient < n + 1/2
IsRounded(n, inputLength, rate) ==
    /\ (2 * n - 1) * rate <= 2 * inputLength * TARGET_SAMPLE_RATE
    /\ 2 * inputLength * TARGET_SAMPLE_RATE < (2 * n + 1) * rate

\* C34 as stated: at a native rate other than 16000 Hz the output length is
\* round(inputLength * 16000 / nativeRate) for every input length, 0 included.
C34_RoundedLength ==
    (convStage # "mixed" /\ nativeRate # TARGET_SAMPLE_RATE)
    => convStage = "resampled" /\ IsRounded(Len(resampled), Len(monoData), nativeRate)

\* C34 amended: at a native rate other than 16000 Hz the resampler renders
\* once and returns max(1, round(inputLength * 16000 / nativeRate)) samples,
\* never none (an empty input yields one sample or fails); at 16000 Hz it
\* returns its input without rendering; 16000 samples at 8000 Hz yield 32000.
C34_ResampleLength ==
    /\ convStage = "resampled" /\ nativeRate # TARGET_SAMPLE_RATE
         => /\ renderings = 1
            /\ Len(resampled) >= 1
            /\ \/ IsRounded(Len(resampled), Len(monoData), nativeRate)
               \/ Len(resampled) = 1 /\ IsRounded(0, Len(monoData), nativeRate)
            /\ (Len(monoData) = 16000 /\ nativeRate = 8000)
                 => Len(resampled) = 32000
    /\ convStage = "resampled" /\ nativeRate = TARGET_SAMPLE_RATE
         => renderings = 0 /\ resampled = monoData
    /\ convStage = "rejected"
         => Len(monoData) = 0 /\ nativeRate # TARGET_SAMPLE_RATE /\ renderings = 0

\* one sample at 44100 Hz, whose rounded target length is 0, came back as one
\* sample
C34_Witness ==
    /\ convStage = "resampled"
    /\ nativeRate = 44100
    /\ Len(monoData) = 1
    /\ IsRounded(0, Len(monoData), nativeRate)
    /\ Len(resampled) = 1

\* 16000 samples at 8000 Hz came back as 32000 samples
C34_Doubled ==
    /\ convStage = "resampled"
    /\ nativeRate = 8000
    /\ Len(monoData) = 16000
    /\ Len(resampled) = 32000

\* ------------------------------------------------------------- C35
\* C35: at most one recorder is capturing, and a recorder is capturing or
\* the tick or the auto-stop timer is armed only while status is Recording.
C35_CaptureMatchesStatus ==
    /\ Cardinality({i \in 1..Len(recorders) : Capturing(i)}) <= 1
    /\ ( \/ \E i \in 1..Len(recorders) : Capturing(i)
         \/ intervals # {}
         \/ timeouts # {} )
       => status = "Recording"

\* ------------------------------------------------------------- C36
\* a call of the hook's user, or the cleanup
CallerStep ==
    \/ RequestMicAccess
    \/ Retry
    \/ \E o \in StartOutcomes, n \in StartErrors : StartRecording(o, n)
    \/ Unmount

\* C36: once the recorder's error event has left status Error with the
\* engine's failure kind, no step other than a call of the caller changes
\* status or errorName or publishes a blob, a URL or a gate result; the stop
\* event that follows the error is such a step.
C36_EngineErrorTerminal ==
    [][ ( /\ status = "Error"
          /\ errorName \in RecorderErrorNames
          /\ ~CallerStep )
        => /\ status' = "Error"
           /\ errorName' = errorName
           /\ audioBlob' = audioBlob
           /\ audioUrl' = audioUrl
           /\ gateResult' = gateResult ]_vars

\* ------------------------------------------------------------- C37
\* recorder.start() of recorder i returned: it is capturing, or it has gone
\* inactive and owes or has delivered its stop event
HasStarted(i) ==
    \/ recorders[i].state # "inactive"
    \/ recorders[i].pending # "none"
    \/ recorders[i].delivered # <<>>

\* the recorder of the most recently started recording, 0 if there is none
LatestRecording ==
    LET started == {i \in 1..Len(recorders) : HasStarted(i)} \cup {0}
    IN CHOOSE i \in started : \A j \in started : j <= i

\* C37: with status Result the gate result, the blob, the URL, the measured
\* duration and the output sample rate are there, errorName is null, and the
\* blob and the URL are those of the most recently started recording.
C37_ResultComplete ==
    status = "Result"
    => /\ gateResult # "null"
       /\ audioBlob # 0
       /\ audioUrl # 0
       /\ measuredDurationMs # 0
       /\ outputSampleRate # 0
       /\ errorName = "null"
       /\ audioBlob = LatestRecording
       /\ audioUrl = LatestRecording

\* ------------------------------------------------------------- C38
\* the decision each reason code stands for
DecisionOf(reason) ==
    CASE reason \in {"Flatline", "TooQuiet", "NoSpeech"} -> "REJECT"
      [] reason = "Ok" -> "PASS"
      [] reason \in {"BorderlineQuiet", "ClippingSuspected", "SpeechOffCenter"}
             -> "AMBIG"
      [] OTHER -> "none"

\* C38: every input yields a result whose reason is one of the seven codes,
\* whose decision is the one the code stands for, and whose reason
\* SpeechOffCenter means that the first speech frame starts too late, the last
\* one ends too early or the speech span is below the minimum.
C38_ReasonIdentifiesBranch ==
    analysis # NoAnalysis
    => /\ analysis.decision \in {"REJECT", "PASS", "AMBIG"}
       /\ analysis.decision = DecisionOf(analysis.reason)
       /\ analysis.reason = "SpeechOffCenter" => ReportedConditions[6]

\* ------------------------------------------------------------- C39
\* the energy of the first k samples of the gate's input, a missing sample
\* counted as silence
RECURSIVE HeadEnergy(_)
HeadEnergy(k) ==
    IF k = 0 THEN 0
    ELSE (IF k <= Len(gatePcm) THEN gatePcm[k] * gatePcm[k] ELSE 0)
             + HeadEnergy(k - 1)

\* the rate timestamps are expected at, and the duration of the analysed
\* window at that rate
RateUsed ==
    IF gateSampleRate > 0 THEN gateSampleRate
    ELSE gateConfig.GATE_TARGET_SAMPLE_RATE
WindowMs == RoundDiv(gateConfig.GATE_TARGET_SAMPLE_COUNT * 1000, RateUsed)

\* the parts of C39 that do not order the two timestamps
MetricsWellFormed ==
    /\ Reported.rms.length = gateConfig.GATE_TARGET_SAMPLE_COUNT
    /\ Reported.rms.sumSquares = HeadEnergy(gateConfig.GATE_TARGET_SAMPLE_COUNT)
    /\ Reported.clipRatio.of = gateConfig.GATE_TARGET_SAMPLE_COUNT
    /\ 0 <= Reported.clipRatio.count
    /\ Reported.clipRatio.count <= Reported.clipRatio.of
    /\ Reported.speechRatio.of > 0
    /\ 0 <= Reported.speechRatio.count
    /\ Reported.speechRatio.count <= Reported.speechRatio.of
    /\ Reported.firstSpeechMs = NullMs <=> Reported.lastSpeechMs = NullMs
    /\ Reported.firstSpeechMs = NullMs <=> Reported.speechRatio.count = 0
    /\ Reported.speechRatio.count = 0 <=> FramesAtLeast = {}
    /\ FramesAtLeast # {}
         => LET first == CHOOSE f \in FramesAtLeast : \A g \in FramesAtLeast : f <= g
                last == CHOOSE f \in FramesAtLeast : \A g \in FramesAtLeast : f >= g
            IN /\ Reported.firstSpeechMs
                      = RoundDiv(first * gateConfig.FRAME_SIZE * 1000, RateUsed)
               /\ Reported.lastSpeechMs
                      = RoundDiv((last + 1) * gateConfig.FRAME_SIZE * 1000, RateUsed)
               /\ 0 <= Reported.firstSpeechMs
               /\ Reported.lastSpeechMs <= WindowMs

C39_Tie ==
    /\ analysis # NoAnalysis
    /\ gateSampleRate = 8000
    /\ Reported.firstSpeechMs = 0
    /\ Reported.lastSpeechMs = 0

\* ------------------------------------------------------------- C40
\* a live session in which timers fire, recorders deliver their stop events,
\* conversions complete, and every acquisition is settled by getUserMedia or
\* by the 30000 ms timeout
TerminationSpec ==
    /\ LiveSpec
    /\ WF_vars(\E r \in 1..MaxCreated :
                   \/ MicResolve(r)
                   \/ MicTimeout(r)
                   \/ \E n \in DenialErrors : MicReject(r, n))

\* the states a cycle ends in
Settled == status \in {"Result", "Error", "MicDenied", "Unsupported"}

\* an accepted startRecording has not come to its end: it awaits its
\* acquisition, is about to resume, records, or its recording is normalized
StartInProgress ==
    \/ \E r \in 1..Len(requests) :
           requests[r].caller = "start" /\ requests[r].st = "pending"
    \/ cont.kind = "start"
    \/ status \in {"Recording", "Processing"}

\* C40: in a session that is not torn down every accepted startRecording is
\* followed by status Result, Error, MicDenied or Unsupported, and status
\* does not stay Requesting.
C40_StartTerminates ==
    /\ (mountedRef /\ StartInProgress) ~> (~mountedRef \/ Settled)
    /\ (mountedRef /\ status = "Requesting")
           ~> (~mountedRef \/ status # "Requesting")

\* a recording started by startRecording went through acquisition, capture
\* and normalization to Result
C40_Witness ==
    /\ status = "Result"
    /\ Len(requests) = 1 /\ requests[1].caller = "start"
    /\ Len(recorders) = 1 /\ recorders[1].conv = "done"
    /\ mountedRef

====
